---- MODULE Spec2Model ----
(***************************************************************************)
(* Model of the update orchestrator of updatifyyy (MainWindow in           *)
(* src/ui/main_window.py): one control (GTK main loop) thread, worker      *)
(* threads for status refreshes, update cycles and the Ctrl+I files-only   *)
(* shortcut, and the GLib idle queue through which workers post callbacks  *)
(* to the control thread.                                                  *)
(*                                                                         *)
(* External commands (git, ./setup, kitty) are the environment: their exit *)
(* codes are drawn with \E.  Every cycle keeps the list of the mutating    *)
(* git commands and of the installer runs it has issued, in order.         *)
(***************************************************************************)
EXTENDS Integers, Sequences, FiniteSets, TLC

\* ---------------------------------------------------------------- bounds
\* Update / Ctrl+I actions taken in one behaviour.
MaxCycles == 2
\* Status refreshes started in one behaviour (the first one by __init__).
MaxRefresh == 2

\* Values of RepoStatus.behind and RepoStatus.dirty a refresh can report.
BehindValues == {0, 2}
DirtyValues == {0, 1}
\* SETTINGS["installer_mode"]
InstallerModes == {"auto", "full", "files-only"}
\* Exit codes of an external command: success and failure.
ExitCodes == {0, 1}

VARIABLES
    scope,             \* what one behaviour explores (fixed by the initial state)
    settings,          \* SETTINGS: installer_mode, send_notifications, keep_tweaks_beta
    status,            \* self._status
    busy,              \* spinner running, refresh_btn insensitive
    update_sensitive,  \* update_btn sensitivity
    auto_mode_choice,  \* self._auto_mode_choice
    tweaks_backup_zip, \* self._tweaks_backup_zip: the cycle that wrote it, 0 if unset
    update_logs,       \* self._update_logs
    notifications,     \* notifications sent through Gio
    refresh_seq,       \* number of refreshes started so far
    refreshing,        \* refresh workers that have not posted their result
    idle,              \* GLib idle queue (FIFO)
    cycles,            \* one record per Update / Ctrl+I action
    restore,           \* one run of the per-file loop of _restore_tweaks_after_install
    spawn,             \* one call of _spawn_setup_install
    reader,            \* one PTYStdout over the output of an installer
    installer,         \* the installer section of one update_work and its handle
    repo,              \* one call of check_repo_status
    ansi,              \* the log view fed by _append_log
    tags,              \* the tag table of the log view's buffer
    click,            \* one Update click: the calls it makes and the thread of each
    ui,               \* the UI changes of one update in src/app.py and the thread of each
    stash             \* the stash stack of the repository during one update_work

window_vars ==
    <<scope, tweaks_backup_zip, settings, status, busy, update_sensitive,
      auto_mode_choice, update_logs, notifications, refresh_seq, refreshing, idle,
      cycles>>

\* The sub-machines, and what each of them leaves alone.
sub_vars == <<restore, spawn, reader, installer, repo, ansi, tags, click, ui, stash>>
restore_frame == <<window_vars, spawn, reader, installer, repo, ansi, tags, click, ui, stash>>
spawn_frame == <<window_vars, restore, reader, installer, repo, ansi, tags, click, ui, stash>>
reader_frame == <<window_vars, restore, spawn, installer, repo, ansi, tags, click, ui, stash>>
installer_frame == <<window_vars, restore, spawn, reader, repo, ansi, tags, click, ui, stash>>
repo_frame == <<window_vars, restore, spawn, reader, installer, ansi, tags, click, ui, stash>>
ansi_frame == <<window_vars, restore, spawn, reader, installer, repo, tags, click, ui, stash>>
tags_frame == <<window_vars, restore, spawn, reader, installer, repo, ansi, click, ui, stash>>
click_frame == <<window_vars, restore, spawn, reader, installer, repo, ansi, tags, ui, stash>>
ui_frame == <<window_vars, restore, spawn, reader, installer, repo, ansi, tags, click, stash>>
stash_frame == <<window_vars, restore, spawn, reader, installer, repo, ansi, tags, click, ui>>

vars == <<window_vars, sub_vars>>

\* ------------------------------------------------------------ RepoStatus
\* gen: the number of the refresh that produced the status.
NoStatus == [present |-> FALSE, gen |-> 0, ok |-> FALSE, behind |-> 0, dirty |-> 0]

\* What check_repo_status can return: ok = False carries the default counts.
Snapshots ==
    {[ok |-> FALSE, behind |-> 0, dirty |-> 0]} \cup
    [ok : {TRUE}, behind : BehindValues, dirty : DirtyValues]

\* Variant: the counts alone decide.
has_updates_mut(st) == st.behind > 0

\* RepoStatus.has_updates: `return self.ok and self.behind > 0`
has_updates(st) == st.ok /\ st.behind > 0

\* can_update of _busy: not is_busy and self._status is not None and has_updates
can_update(is_busy, st) == ~is_busy /\ st.present /\ has_updates(st)

\* ------------------------------------------------------------ idle queue
\* cyc: the cycle that posted it; st: the status a finish_refresh delivers.
Callback(kind, cyc, st, success) ==
    [kind |-> kind, cyc |-> cyc, st |-> st, success |-> success]

\* GLib keeps an idle source whose callback returns a true value.  The
\* lambdas that return a tuple "(..., False)" return a non-empty tuple.
returns_truthy(kind) == kind \in {"kitty_done", "shortcut_done", "show_message"}

\* The queue after its head callback has run.
AfterRun(q) ==
    IF returns_truthy(Head(q).kind) THEN Append(Tail(q), Head(q)) ELSE Tail(q)

HeadIs(kind) == idle # <<>> /\ Head(idle).kind = kind

\* ---------------------------------------------------------------- cycles
\* kind: "update" or "shortcut"; pc: where its worker is; ops: the mutating
\* git commands it has run, in order; inst: its installer runs, in order;
\* conflict / still: what its conflict check found; dirty_seen: the dirty
\* count update_work read from the status; pull: how its pull ended;
\* had_updates: whether the status had updates when the cycle was entered;
\* prompted / decided: whether its handler asked full-vs-minimal, and the
\* decision it stored; plan: the installer argument its worker planned;
\* backup: what its tweaks backup step did; restored_from: the cycle whose
\* archive its tweaks restore used (0: the restore did nothing); completed:
\* how many times its completion callback has run.
NewCycle(kind, pc, ops, conflict, still) ==
    [kind |-> kind, pc |-> pc, ops |-> ops, inst |-> <<>>,
     conflict |-> conflict, still |-> still, dirty_seen |-> 0, pull |-> "none",
     had_updates |-> kind = "update" /\ has_updates(status),
     prompted |-> FALSE, decided |-> "none", plan |-> "none",
     backup |-> "none", restored_from |-> 0, completed |-> 0]

CycleIds == 1..Len(cycles)

\* Installer processes of cycle c that have been launched and have not exited.
LiveOf(c) == {i \in 1..Len(cycles[c].inst) : cycles[c].inst[i].state = "running"}
LiveInstallers == {<<c, i>> \in CycleIds \X (1..2) : i \in LiveOf(c)}

\* One installer run: its argument, how it was started (embedded console or
\* external kitty terminal), whether it is running, and its exit code.
Run(args, via, state, rc) == [args |-> args, via |-> via, state |-> state, rc |-> rc]

Exited(c, i, rc) ==
    [cycles EXCEPT ![c].inst[i].state = "exited", ![c].inst[i].rc = rc]

\* ------------------------------------------------- refresh_status (507-516)
can_refresh == refresh_seq < MaxRefresh + scope.more_refresh

\* ------------------------------------ _check_and_handle_unmerged_conflicts
AbortOps == <<"merge", "rebase", "cherry-pick">>

\* The ConflictState: unmerged paths and the operations in progress.
ConflictStates ==
    [unmerged : BOOLEAN, merge : BOOLEAN, rebase : BOOLEAN, cherry : BOOLEAN]

InProgress(cs, op) ==
    CASE op = "merge" -> cs.merge
      [] op = "rebase" -> cs.rebase
      [] OTHER -> cs.cherry

conflict_detected(cs) == cs.unmerged \/ cs.merge \/ cs.rebase \/ cs.cherry

\* The --abort commands issued after the operator has confirmed, in order.
RECURSIVE abort_commands(_, _)
abort_commands(cs, i) ==
    IF i > Len(AbortOps) THEN <<>>
    ELSE (IF InProgress(cs, AbortOps[i])
          THEN <<AbortOps[i] \o " --abort">> ELSE <<>>)
         \o abort_commands(cs, i + 1)

\* Variant: only the last abort decides.
aborts_ok_mut(cs, abort_rc) ==
    \/ \A i \in 1..Len(AbortOps) : ~InProgress(cs, AbortOps[i])
    \/ LET last == CHOOSE i \in 1..Len(AbortOps) :
                       /\ InProgress(cs, AbortOps[i])
                       /\ \A j \in (i + 1)..Len(AbortOps) : ~InProgress(cs, AbortOps[j])
       IN  abort_rc[last] = 0

\* ok after the abort sequence: every issued abort exited 0.
aborts_ok(cs, abort_rc) ==
    \A i \in 1..Len(AbortOps) : InProgress(cs, AbortOps[i]) => abort_rc[i] = 0

\* Variant: the second query is ignored.
resolve_ok_mut(ok, still_unmerged) == ok
\* ok after the second unmerged-path query.
resolve_ok(ok, still_unmerged) == ok /\ ~still_unmerged

\* What the operator answered / how the abort sequence went.
conflict_class(cs, resp_ok, abort_rc) ==
    IF ~conflict_detected(cs) THEN "none"
    ELSE IF ~resp_ok THEN "cancelled"
    ELSE IF aborts_ok(cs, abort_rc) THEN "aborted" ELSE "abort_failed"

\* Result of _check_and_handle_unmerged_conflicts: its return value and the
\* commands it ran.  resp_ok: the operator chose "Abort and continue".
check_and_handle_unmerged_conflicts(cs, resp_ok, abort_rc, still_unmerged) ==
    IF ~conflict_detected(cs)
    THEN [ok |-> TRUE, cmds |-> <<>>, requeried |-> FALSE]
    ELSE IF ~resp_ok
    THEN [ok |-> FALSE, cmds |-> <<>>, requeried |-> FALSE]
    ELSE [ok |-> resolve_ok(aborts_ok(cs, abort_rc), still_unmerged),
          cmds |-> abort_commands(cs, 1), requeried |-> TRUE]

\* A cycle keeps of the abort commands only that some were run.
abort_ops(cmds) == IF cmds = <<>> THEN <<>> ELSE <<"abort">>

\* Every outcome of the conflict check, over all conflict states, answers,
\* abort exit codes and results of the second unmerged-path query.
ConflictOutcomes ==
    {LET r == check_and_handle_unmerged_conflicts(cs, resp_ok, abort_rc, still)
     IN  [ok |-> r.ok, ops |-> abort_ops(r.cmds),
          conflict |-> conflict_class(cs, resp_ok, abort_rc),
          still |-> r.requeried /\ still] :
        cs \in ConflictStates, resp_ok \in BOOLEAN,
        abort_rc \in [1..Len(AbortOps) -> ExitCodes], still \in BOOLEAN}

\* ------------------------------------------------------------ environment
\* scope.max_cycles: Update / Ctrl+I actions in one behaviour.
\* scope.more_refresh: refreshes explored beyond MaxRefresh.
\* scope.full_env: whether conflicts and raising git commands are explored;
\* without it the repository has no conflict and git returns an exit code.
ConflictInputs ==
    IF scope.full_env THEN ConflictOutcomes
    ELSE {o \in ConflictOutcomes : o.conflict = "none"}
PullResults == IF scope.full_env THEN {"ok", "fail", "raise"} ELSE {"ok", "fail"}
SpawnResults == BOOLEAN

\* --------------------------------------------------------- control thread
\* refresh_status(): _busy(True, hint) and a new refresh worker thread.
refresh_status ==
    /\ can_refresh
    /\ refresh_seq' = refresh_seq + 1
    /\ refreshing' = refreshing \cup {refresh_seq + 1}
    /\ busy' = TRUE
    /\ update_sensitive' = can_update(TRUE, status)

\* ------------------------------------------------- keep-tweaks file data
\* The bytes of a file: `count` copies of one line, each ended by `eol`.
\* Files of different lines share no line, so their unified diff is the three
\* header lines plus every line of both.  LongFile has more lines than the
\* preview shows (diff_lines[:200]).
PreviewMax == 200
Absent == [exists |-> FALSE, line |-> "", count |-> 0, eol |-> "lf"]
EmptyFile == [exists |-> TRUE, line |-> "", count |-> 0, eol |-> "lf"]
LongFile == [exists |-> TRUE, line |-> "z", count |-> PreviewMax + 1, eol |-> "lf"]
Contents ==
    {EmptyFile, [exists |-> TRUE, line |-> "x", count |-> 1, eol |-> "lf"],
     [exists |-> TRUE, line |-> "x", count |-> 1, eol |-> "crlf"], LongFile}
Files == Contents \cup {Absent}

\* Paths relative to the tweaks target, in the order os.walk yields them.
PathOrder == <<"a.conf", "b.conf">>
Paths == {PathOrder[i] : i \in 1..Len(PathOrder)}
Responses == {"YES", "NO", "DELETE_EVENT"}
Failures == {"none", "makedirs", "read", "backup_copy", "copy"}

\* Before _restore_tweaks_after_install is called.
RestoreIdle ==
    [phase |-> "idle", archive |-> [p \in Paths |-> Absent],
     before |-> [p \in Paths |-> Absent], current |-> [p \in Paths |-> Absent],
     tweaks_bak |-> [p \in Paths |-> Absent], auto_restore |-> FALSE, pos |-> 1,
     calls |-> [p \in Paths |-> 0], diff_preview |-> [p \in Paths |-> 0],
     action |-> [p \in Paths |-> "none"], outcome |-> [p \in Paths |-> "pending"],
     failed |-> [p \in Paths |-> "none"],
     restored_count |-> 0, kept_count |-> 0, skipped_count |-> 0, summary |-> FALSE]

\* ------------------------------------------------------ installer launch
\* What subprocess.Popen does with one candidate command.
LaunchResults == {"ok", "ENOEXEC", "OSError", "Exception"}
Interpreters == {"fish", "bash"}
ExtraArgs == {"install", "install-files"}
AutoInputs == {<<>>, <<"1", "n">>}
Sentinel == "yesforall"

\* Before _spawn_setup_install is called.
SpawnIdle ==
    [phase |-> "idle", interpreter |-> "fish", extra_args |-> "install",
     auto_input_seq |-> <<>>, use_pty |-> TRUE, next |-> 1, tried |-> <<>>,
     launch |-> <<>>, log |-> <<>>, returned |-> "pending", cmd |-> "none",
     pty |-> FALSE, feeder |-> "none", openpty |-> <<>>, fds |-> {},
     master_fd |-> 0, feed |-> "none", item |-> 1, written |-> <<>>,
     write_errors |-> 0]

\* ------------------------------------------------------- PTY line reader
MaxStream == 4
NL == "\n"
MaxSent == 2
Chars == {"a", NL}

\* What the installer writes to its terminal before it exits.
Streams == UNION {[1..n -> Chars] : n \in 0..MaxStream}

\* How self._stream.read(1) behaves once the stream is drained and the child
\* has closed the slave side: it returns "" or it raises OSError (EIO), by
\* platform.
StreamEnds == {"eof", "EIO"}

\* Before a PTYStdout is built.
ReaderIdle ==
    [phase |-> "idle", stream |-> <<>>, end |-> "eof", pos |-> 0, buffer |-> <<>>,
     out |-> <<>>, raised |-> FALSE]

\* ------------------------------------------------- installer and handle
\* Before update_work reaches its installer section: no process, no handle.
InstallerIdle ==
    [pc |-> "idle", extra_args |-> "install", current_proc |-> 0,
     procs |-> <<"none", "none">>, sent |-> <<>>]

\* ------------------------------------------------------------- RepoStatus
MaxCount == 2

\* Optional[...]: None, or the value.
None == <<>>
Some(x) == <<x>>

\* Text is a sequence of characters.
Whitespace == {" ", NL}

\* str.strip()
RECURSIVE lstrip(_)
lstrip(s) == IF s # <<>> /\ Head(s) \in Whitespace THEN lstrip(Tail(s)) ELSE s
RECURSIVE rstrip(_)
rstrip(s) ==
    IF s # <<>> /\ s[Len(s)] \in Whitespace THEN rstrip(SubSeq(s, 1, Len(s) - 1)) ELSE s
strip(s) == rstrip(lstrip(s))

\* int(text) for unsigned decimal text: ok = FALSE stands for ValueError.
DigitValue == [d \in {"0", "1", "2", "3"} |-> CASE d = "0" -> 0 [] d = "1" -> 1
                                                 [] d = "2" -> 2 [] d = "3" -> 3]
RECURSIVE decimal(_)
decimal(s) == IF s = <<>> THEN 0 ELSE 10 * decimal(SubSeq(s, 1, Len(s) - 1)) + DigitValue[s[Len(s)]]
int(s) ==
    IF s # <<>> /\ \A i \in 1..Len(s) : s[i] \in DOMAIN DigitValue
    THEN [ok |-> TRUE, value |-> decimal(s)]
    ELSE [ok |-> FALSE, value |-> 0]

\* str.splitlines()
RECURSIVE splitlines(_)
splitlines(s) ==
    IF s = <<>> THEN <<>>
    ELSE IF \E i \in 1..Len(s) : s[i] = NL
    THEN LET i == CHOOSE k \in 1..Len(s) : s[k] = NL /\ \A j \in 1..(k - 1) : s[j] # NL
         IN  <<SubSeq(s, 1, i - 1)>> \o splitlines(SubSeq(s, i + 1, Len(s)))
    ELSE <<s>>

\* RepoStatus(ok, repo_path): the dataclass defaults.
RepoStatus(ok, error) ==
    [ok |-> ok, branch |-> None, upstream |-> None, behind |-> 0, ahead |-> 0,
     dirty |-> 0, fetch_error |-> None, error |-> error]

\* Every RepoStatus with counts up to MaxCount.
RepoStatuses ==
    {[RepoStatus(ok, None) EXCEPT !.behind = b, !.ahead = a, !.dirty = d] :
        ok \in BOOLEAN, b \in 0..MaxCount, a \in 0..MaxCount, d \in 0..MaxCount}

\* Before check_repo_status is called.
RepoIdle ==
    [pc |-> "idle", st |-> RepoStatus(FALSE, None), has_updates |-> FALSE,
     path_is_dir |-> FALSE, has_git |-> FALSE, calls |-> <<>>]

\* The log view before any text is appended.
AnsiIdle ==
    [pc |-> "idle", tokens |-> <<>>, cut |-> 0, parts |-> <<>>, buf |-> <<>>,
     active_tags |-> <<>>]

\* The tag table before any 256-colour tag is created.
MaxIndex == 255
TagsIdle == [pc |-> "idle", color_index |-> 0, todo |-> <<>>, table |-> {}]

\* No Update click is being handled.
ClickIdle ==
    [pc |-> "idle", thread |-> "control", present |-> FALSE, mode |-> "auto",
     blocking |-> <<>>, cs |-> [unmerged |-> FALSE, merge |-> FALSE,
                                rebase |-> FALSE, cherry |-> FALSE],
     resp_ok |-> FALSE, abort_rc |-> <<0, 0, 0>>, still |-> FALSE, ok |-> FALSE]

\* No update is running in the window of src/app.py.
UiIdle ==
    [pc |-> "idle", thread |-> "control", idle |-> <<>>, changes |-> <<>>,
     cleared |-> FALSE]

\* The repository before update_work touches the stash.  stack: the stash
\* entries, newest first, each named by who created it.
StashIdle ==
    [pc |-> "idle", before |-> <<>>, stack |-> <<>>, status_dirty |-> 0,
     tree_dirty |-> FALSE, stashed |-> FALSE, push |-> "none",
     success |-> FALSE, pop_run |-> FALSE, popped |-> "none"]

\* No sub-machine is running, except the one named.
SubIdleBut(machine) ==
    /\ IF machine = "restore" THEN TRUE ELSE restore = RestoreIdle
    /\ IF machine = "spawn" THEN TRUE ELSE spawn = SpawnIdle
    /\ IF machine = "reader" THEN TRUE ELSE reader = ReaderIdle
    /\ IF machine = "installer" THEN TRUE ELSE installer = InstallerIdle
    /\ IF machine = "repo" THEN TRUE ELSE repo = RepoIdle
    /\ IF machine = "ansi" THEN TRUE ELSE ansi = AnsiIdle
    /\ IF machine = "tags" THEN TRUE ELSE tags = TagsIdle
    /\ IF machine = "click" THEN TRUE ELSE click = ClickIdle
    /\ IF machine = "ui" THEN TRUE ELSE ui = UiIdle
    /\ IF machine = "stash" THEN TRUE ELSE stash = StashIdle

SubIdle == SubIdleBut("none")

\* State after __init__: no status, empty history, the initial refresh started.
Started ==
    /\ settings \in [installer_mode : InstallerModes, send_notifications : BOOLEAN,
                     keep_tweaks_beta : BOOLEAN]
    /\ tweaks_backup_zip = 0
    /\ status = NoStatus
    /\ update_logs = <<>>
    /\ notifications = <<>>
    /\ auto_mode_choice = "none"
    /\ busy = TRUE
    /\ update_sensitive = FALSE
    /\ refresh_seq = 1
    /\ refreshing = {1}
    /\ idle = <<>>
    /\ cycles = <<>>

\* The window as __init__ leaves it, with the default settings.
WindowIdle ==
    /\ scope = [max_cycles |-> 0, full_env |-> FALSE, more_refresh |-> 0]
    /\ Started
    /\ settings = [installer_mode |-> "auto", send_notifications |-> TRUE,
                   keep_tweaks_beta |-> FALSE]

\* Concurrent cycles in a repository without conflicts, under the default
\* installer mode and notification setting, keep-tweaks on or off.
Init ==
    /\ scope = [max_cycles |-> MaxCycles, full_env |-> FALSE, more_refresh |-> 0]
    /\ Started
    /\ settings.installer_mode = "auto"
    /\ settings.send_notifications
    /\ SubIdle

\* One cycle (Update or Ctrl+I) against the whole environment, under every
\* installer mode and notification setting, keep-tweaks off.
InitCycle ==
    /\ scope = [max_cycles |-> 1, full_env |-> TRUE, more_refresh |-> 0]
    /\ Started
    /\ ~settings.keep_tweaks_beta
    /\ SubIdle

\* Periodic timer (GLib.timeout_add_seconds): fires whatever the UI state.
auto_refresh ==
    /\ refresh_status
    /\ UNCHANGED <<sub_vars, scope, tweaks_backup_zip, settings, status, auto_mode_choice, update_logs,
                   notifications, idle, cycles>>

\* Refresh button: clickable only while sensitive (_busy sets it to not busy).
on_refresh_clicked ==
    /\ ~busy
    /\ refresh_status
    /\ UNCHANGED <<sub_vars, scope, tweaks_backup_zip, settings, status, auto_mode_choice, update_logs,
                   notifications, idle, cycles>>

\* refresh_work: check_repo_status on the worker, result posted with idle_add.
refresh_work(r) ==
    /\ r \in refreshing
    /\ \E snap \in Snapshots :
        idle' = Append(idle,
                    Callback("finish_refresh", 0,
                        [present |-> TRUE, gen |-> r, ok |-> snap.ok,
                         behind |-> snap.behind, dirty |-> snap.dirty], FALSE))
    /\ refreshing' = refreshing \ {r}
    /\ UNCHANGED <<sub_vars, scope, tweaks_backup_zip, settings, status, busy, update_sensitive, auto_mode_choice,
                   update_logs, notifications, refresh_seq, cycles>>

\* _finish_refresh: the delivered status becomes current, then _busy(False).
finish_refresh ==
    /\ HeadIs("finish_refresh")
    /\ status' = Head(idle).st
    /\ busy' = FALSE
    /\ update_sensitive' = can_update(FALSE, status')
    /\ idle' = AfterRun(idle)
    /\ UNCHANGED <<sub_vars, scope, tweaks_backup_zip, settings, auto_mode_choice, update_logs, notifications,
                   refresh_seq, refreshing, cycles>>

\* _auto_mode_decide_full: prompt only when sdata/dist-arch changed upstream.
auto_mode_decide_full(changed, answer_yes) == changed /\ answer_yes

\* Commands install planning runs before the conflict check (fetch, 1123).
planning_commands(mode) == IF mode = "auto" THEN <<"fetch">> ELSE <<>>

\* The body of on_update_clicked.
update_clicked ==
    /\ Len(cycles) < scope.max_cycles
    /\ IF ~status.present
       THEN /\ refresh_status
            /\ UNCHANGED <<sub_vars, scope, tweaks_backup_zip, settings, status, auto_mode_choice, update_logs,
                           notifications, idle, cycles>>
       ELSE \E changed, answer_yes \in BOOLEAN, o \in ConflictInputs :
            LET mode == settings.installer_mode
                full == auto_mode_decide_full(changed, answer_yes)
                ops == planning_commands(mode) \o o.ops
                choice == IF full THEN "full" ELSE "files-only"
                cyc(pc) ==
                    [NewCycle("update", pc, ops, o.conflict, o.still) EXCEPT
                        !.prompted = mode = "auto" /\ changed,
                        !.decided = IF mode = "auto" THEN choice ELSE "none"]
            IN  /\ auto_mode_choice' =
                       IF mode = "auto" THEN choice ELSE auto_mode_choice
                /\ IF o.ok
                   THEN /\ cycles' = Append(cycles, cyc("started"))
                        /\ busy' = TRUE
                        /\ update_sensitive' = can_update(TRUE, status)
                   ELSE /\ cycles' = Append(cycles, cyc("done"))
                        /\ UNCHANGED <<busy, update_sensitive>>
                /\ UNCHANGED <<sub_vars, scope, tweaks_backup_zip, settings, status, update_logs, notifications,
                               refresh_seq, refreshing, idle>>

\* on_update_clicked: the Update button, clickable only while sensitive.
on_update_clicked ==
    /\ update_sensitive
    /\ update_clicked

\* Ctrl+I in src/main_window.py: _run_update_without_pull calls
\* on_update_clicked(None), whatever the state of the button.
key_press_update_clicked == update_clicked

\* ------------------------------------------------ keep tweaks (743-793)
\* What "if keep_tweaks_beta: _backup_tweaks_before_install()" does in the
\* worker of cycle c.  target_isdir: ~/.config/quickshell/ii is a directory;
\* zip_ok: the archive could be written.
backup_tweaks_before_install(c, target_isdir, zip_ok) ==
    IF ~settings.keep_tweaks_beta
    THEN [zip |-> tweaks_backup_zip, backup |-> "off"]
    ELSE IF tweaks_backup_zip # 0
    THEN [zip |-> tweaks_backup_zip,
          backup |-> IF target_isdir THEN "reused" ELSE "no_target"]
    ELSE IF ~target_isdir
    THEN [zip |-> 0, backup |-> "no_target"]
    ELSE IF zip_ok
    THEN [zip |-> c, backup |-> "taken"]
    ELSE [zip |-> 0, backup |-> "failed"]

\* The archive _restore_tweaks_after_install works from (0: it returns at
\* once).  usable: the archive file and the target directory exist.
restore_tweaks_after_install(usable) ==
    IF settings.keep_tweaks_beta /\ tweaks_backup_zip # 0 /\ usable
    THEN tweaks_backup_zip ELSE 0

\* The environment of the keep-tweaks steps, explored when the setting is on.
TweakEnv == IF settings.keep_tweaks_beta THEN BOOLEAN ELSE {TRUE}

\* ------------------------------------------------- update_work (551-738)
\* Variant: stash whatever the dirty count.
should_stash_mut(st) == st.present
\* "if self._status and self._status.dirty > 0": stash before the pull.
should_stash(st) == st.present /\ st.dirty > 0

\* Variant: pop whatever the pull returned.
should_pop_mut(success, stashed) == stashed
\* "if success and stashed": restore the stash after the pull.
should_pop(success, stashed) == success /\ stashed

\* Variant: retry after any failed run.
needs_retry_mut(rc, extra_args) == rc # 0
\* "if rc != 0 and 'install-files' in extra_args": fall back to full install.
needs_retry(rc, extra_args) == rc # 0 /\ extra_args = "install-files"

\* success handed to _finish_update: "success = pull.returncode == 0".
reported_success(c) == cycles[c].pull = "ok"

PostFinishUpdate(c) ==
    Append(idle, Callback("finish_update", c, NoStatus, reported_success(c)))

\* First part of update_work: stash push, pull --rebase, stash pop.  A
\* subprocess.run that raises ends the thread: nothing is posted.
update_work_pull(c) ==
    /\ cycles[c].pc = "started"
    /\ \E pull_result \in PullResults, target_isdir, zip_ok \in TweakEnv :
        LET b == backup_tweaks_before_install(c, target_isdir, zip_ok)
            stashed == should_stash(status)
            success == pull_result = "ok"
            cmds == (IF stashed THEN <<"stash push">> ELSE <<>>)
                    \o <<"pull">>
                    \o (IF pull_result # "raise" /\ should_pop(success, stashed)
                        THEN <<"stash pop">> ELSE <<>>)
        IN  /\ tweaks_backup_zip' = b.zip
            /\ cycles' = [cycles EXCEPT
                   ![c].backup = b.backup,
                   ![c].ops = @ \o cmds,
                   ![c].dirty_seen = IF status.present THEN status.dirty ELSE 0,
                   ![c].pull = pull_result,
                   ![c].pc = IF pull_result = "raise" THEN "dead" ELSE "pulled"]
    /\ UNCHANGED <<sub_vars, scope, settings, status, busy, update_sensitive, auto_mode_choice,
                   update_logs, notifications, refresh_seq, refreshing, idle>>

\* "full" of update_work (602-608), from the mode and the cached decision.
plan_full(mode_local, choice) ==
    CASE mode_local = "auto" -> choice = "full"
      [] mode_local = "full" -> TRUE
      [] OTHER -> FALSE

\* Second part of update_work: decide the plan, then either hand the full
\* install to kitty (external terminal) or spawn the embedded installer.
\* kitty: shutil.which("kitty"); setup_ok: ./setup is an executable file;
\* spawned: _spawn_setup_install returned a process.
update_work_install(c) ==
    /\ cycles[c].pc = "pulled"
    /\ \E kitty, setup_ok \in BOOLEAN, spawned \in SpawnResults :
        LET mode_local == settings.installer_mode
            full == plan_full(mode_local, auto_mode_choice)
            extra_args == IF full THEN "install" ELSE "install-files"
        IN  /\ auto_mode_choice' =
                   IF mode_local = "auto" THEN "none" ELSE auto_mode_choice
            /\ IF full /\ kitty
               THEN /\ idle' = Append(idle, Callback("prep_tray", c, NoStatus, FALSE))
                    /\ cycles' = [cycles EXCEPT
                           ![c].plan = extra_args,
                           ![c].inst = <<Run("install", "kitty", "running", 0)>>,
                           ![c].pc = "kitty"]
               ELSE IF ~setup_ok
               THEN /\ idle' = PostFinishUpdate(c)
                    /\ cycles' = [cycles EXCEPT
                           ![c].plan = extra_args,
                           ![c].pc = "finishing"]
               ELSE IF spawned
               THEN /\ idle' = idle
                    /\ cycles' = [cycles EXCEPT
                           ![c].plan = extra_args,
                           ![c].inst = <<Run(extra_args, "embedded", "running", 0)>>,
                           ![c].pc = "installing"]
               ELSE /\ idle' = PostFinishUpdate(c)
                    /\ cycles' = [cycles EXCEPT
                           ![c].plan = extra_args,
                           ![c].inst = <<Run(extra_args, "embedded", "noproc", 0)>>,
                           ![c].pc = "finishing"]
    /\ UNCHANGED <<sub_vars, scope, tweaks_backup_zip, settings, status, busy, update_sensitive, update_logs,
                   notifications, refresh_seq, refreshing>>

\* p.wait() of the first embedded installer, then the fallback spawn.
update_work_wait(c) ==
    /\ cycles[c].pc = "installing"
    /\ \E rc \in ExitCodes, spawned \in SpawnResults :
        LET extra_args == cycles[c].inst[1].args
            done == Exited(c, 1, rc)
        IN  IF needs_retry(rc, extra_args)
            THEN IF spawned
                 THEN /\ idle' = idle
                      /\ cycles' = [done EXCEPT
                             ![c].inst = Append(@, Run("install", "embedded", "running", 0)),
                             ![c].pc = "retrying"]
                 ELSE /\ idle' = PostFinishUpdate(c)
                      /\ cycles' = [done EXCEPT
                             ![c].inst = Append(@, Run("install", "embedded", "noproc", 0)),
                             ![c].pc = "finishing"]
            ELSE /\ idle' = PostFinishUpdate(c)
                 /\ cycles' = [done EXCEPT ![c].pc = "finishing"]
    /\ UNCHANGED <<sub_vars, scope, tweaks_backup_zip, settings, status, busy, update_sensitive, auto_mode_choice,
                   update_logs, notifications, refresh_seq, refreshing>>

\* p2.wait() of the fallback installer.
update_work_retry_wait(c) ==
    /\ cycles[c].pc = "retrying"
    /\ \E rc2 \in ExitCodes :
        cycles' = [Exited(c, 2, rc2) EXCEPT ![c].pc = "finishing"]
    /\ idle' = PostFinishUpdate(c)
    /\ UNCHANGED <<sub_vars, scope, tweaks_backup_zip, settings, status, busy, update_sensitive, auto_mode_choice,
                   update_logs, notifications, refresh_seq, refreshing>>

\* _kitty_work2: Popen(kitty ... ./setup install).wait(), then the callback.
kitty_work2(c) ==
    /\ cycles[c].pc = "kitty"
    /\ \E rc \in ExitCodes :
        /\ cycles' = [Exited(c, 1, rc) EXCEPT ![c].pc = "posted"]
        /\ idle' = Append(idle, Callback("kitty_done", c, NoStatus, rc = 0))
    /\ UNCHANGED <<sub_vars, scope, tweaks_backup_zip, settings, status, busy, update_sensitive, auto_mode_choice,
                   update_logs, notifications, refresh_seq, refreshing>>

\* _prep_tray: hide the window, _busy(False, "").
prep_tray ==
    /\ HeadIs("prep_tray")
    /\ busy' = FALSE
    /\ update_sensitive' = can_update(FALSE, status)
    /\ idle' = AfterRun(idle)
    /\ UNCHANGED <<sub_vars, scope, tweaks_backup_zip, settings, status, auto_mode_choice, update_logs,
                   notifications, refresh_seq, refreshing, cycles>>

\* The callback _kitty_work2 posts: tweak restore, tray restore, refresh_status.
kitty_done ==
    /\ HeadIs("kitty_done")
    /\ refresh_status
    /\ \E usable \in TweakEnv :
        cycles' = [cycles EXCEPT
            ![Head(idle).cyc].restored_from = restore_tweaks_after_install(usable),
            ![Head(idle).cyc].completed = @ + 1,
            ![Head(idle).cyc].pc = "done"]
    /\ idle' = AfterRun(idle)
    /\ UNCHANGED <<sub_vars, scope, tweaks_backup_zip, settings, status, auto_mode_choice, update_logs, notifications>>

\* title of _finish_update
title_of(success) == IF success THEN "Update complete" ELSE "Update failed"

\* _finish_update: _busy(False), history entry, refresh_status, notification.
finish_update ==
    /\ HeadIs("finish_update")
    /\ LET c == Head(idle).cyc
           success == Head(idle).success
       IN  /\ update_logs' = Append(update_logs,
                                 [cyc |-> c, title |-> title_of(success)])
           /\ notifications' =
                  IF settings.send_notifications
                  THEN Append(notifications, [cyc |-> c, success |-> success])
                  ELSE notifications
           /\ \E usable \in TweakEnv :
                  cycles' = [cycles EXCEPT
                      ![c].restored_from = restore_tweaks_after_install(usable),
                      ![c].completed = @ + 1,
                      ![c].pc = "done"]
    /\ refresh_status
    /\ idle' = AfterRun(idle)
    /\ UNCHANGED <<sub_vars, scope, tweaks_backup_zip, settings, status, auto_mode_choice>>

\* ------------------------------------- _run_update_without_pull (435-500)
\* Ctrl+I: no guard on busy or on the status.
run_update_without_pull ==
    /\ Len(cycles) < scope.max_cycles
    /\ cycles' = Append(cycles,
                     NewCycle("shortcut", "sc_started", <<>>, "none", FALSE))
    /\ UNCHANGED <<sub_vars, scope, tweaks_backup_zip, settings, status, busy, update_sensitive, auto_mode_choice,
                   update_logs, notifications, refresh_seq, refreshing, idle>>

\* work(): the setup check and the spawn of ./setup install-files.
shortcut_work(c) ==
    /\ cycles[c].pc = "sc_started"
    /\ \E setup_ok \in BOOLEAN, spawned \in SpawnResults,
          target_isdir, zip_ok \in TweakEnv :
        LET b == backup_tweaks_before_install(c, target_isdir, zip_ok)
        IN  /\ tweaks_backup_zip' = b.zip
            /\ IF ~setup_ok
               THEN /\ idle' = Append(idle, Callback("show_message", c, NoStatus, FALSE))
                    /\ cycles' = [cycles EXCEPT ![c].backup = b.backup, ![c].pc = "done"]
               ELSE IF spawned
               THEN /\ idle' = idle
                    /\ cycles' = [cycles EXCEPT
                           ![c].backup = b.backup,
                           ![c].inst = <<Run("install-files", "embedded", "running", 0)>>,
                           ![c].pc = "sc_installing"]
               ELSE /\ idle' = Append(idle, Callback("refresh_status", c, NoStatus, FALSE))
                    /\ cycles' = [cycles EXCEPT
                           ![c].backup = b.backup,
                           ![c].inst = <<Run("install-files", "embedded", "noproc", 0)>>,
                           ![c].pc = "done"]
    /\ UNCHANGED <<sub_vars, scope, settings, status, busy, update_sensitive, auto_mode_choice,
                   update_logs, notifications, refresh_seq, refreshing>>

\* work(): p.wait(), the (restore, refresh) callback, then finally's refresh.
shortcut_wait(c) ==
    /\ cycles[c].pc = "sc_installing"
    /\ \E rc \in ExitCodes :
        /\ cycles' = [Exited(c, 1, rc) EXCEPT ![c].pc = "posted"]
        /\ idle' = idle \o <<Callback("shortcut_done", c, NoStatus, rc = 0),
                             Callback("refresh_status", c, NoStatus, FALSE)>>
    /\ UNCHANGED <<sub_vars, scope, tweaks_backup_zip, settings, status, busy, update_sensitive, auto_mode_choice,
                   update_logs, notifications, refresh_seq, refreshing>>

\* The (restore tweaks, refresh_status, False) callback of the shortcut.
shortcut_done ==
    /\ HeadIs("shortcut_done")
    /\ refresh_status
    /\ \E usable \in TweakEnv :
        cycles' = [cycles EXCEPT
            ![Head(idle).cyc].restored_from = restore_tweaks_after_install(usable),
            ![Head(idle).cyc].completed = @ + 1,
            ![Head(idle).cyc].pc = "done"]
    /\ idle' = AfterRun(idle)
    /\ UNCHANGED <<sub_vars, scope, tweaks_backup_zip, settings, status, auto_mode_choice, update_logs, notifications>>

\* GLib.idle_add(self.refresh_status)
idle_refresh_status ==
    /\ HeadIs("refresh_status")
    /\ refresh_status
    /\ idle' = AfterRun(idle)
    /\ UNCHANGED <<sub_vars, scope, tweaks_backup_zip, settings, status, auto_mode_choice, update_logs,
                   notifications, cycles>>

\* The (_show_message(...), False) callback: it only sets the error label.
show_message ==
    /\ HeadIs("show_message")
    /\ idle' = AfterRun(idle)
    /\ UNCHANGED <<sub_vars, scope, tweaks_backup_zip, settings, status, busy, update_sensitive, auto_mode_choice,
                   update_logs, notifications, refresh_seq, refreshing, cycles>>

\* ---------------------------------------------------------- specification
Next ==
    \/ auto_refresh
    \/ on_refresh_clicked
    \/ \E r \in refreshing : refresh_work(r)
    \/ finish_refresh
    \/ on_update_clicked
    \/ \E c \in CycleIds : update_work_pull(c)
    \/ \E c \in CycleIds : update_work_install(c)
    \/ \E c \in CycleIds : update_work_wait(c)
    \/ \E c \in CycleIds : update_work_retry_wait(c)
    \/ \E c \in CycleIds : kitty_work2(c)
    \/ prep_tray
    \/ kitty_done
    \/ finish_update
    \/ run_update_without_pull
    \/ \E c \in CycleIds : shortcut_work(c)
    \/ \E c \in CycleIds : shortcut_wait(c)
    \/ shortcut_done
    \/ idle_refresh_status
    \/ show_message

Spec == Init /\ [][Next]_vars

CycleSpec == InitCycle /\ [][Next]_vars

\* src/main_window.py: the same window, except that Ctrl+I runs the Update
\* handler; it has no files-only shortcut worker and no keep-tweaks steps.
InitMainWindow ==
    /\ scope = [max_cycles |-> 1, full_env |-> FALSE, more_refresh |-> 0]
    /\ Started
    /\ ~settings.keep_tweaks_beta
    /\ SubIdle

NextMainWindow ==
    \/ auto_refresh
    \/ on_refresh_clicked
    \/ \E r \in refreshing : refresh_work(r)
    \/ finish_refresh
    \/ on_update_clicked
    \/ key_press_update_clicked
    \/ \E c \in CycleIds : update_work_pull(c)
    \/ \E c \in CycleIds : update_work_install(c)
    \/ \E c \in CycleIds : update_work_wait(c)
    \/ \E c \in CycleIds : update_work_retry_wait(c)
    \/ \E c \in CycleIds : kitty_work2(c)
    \/ prep_tray
    \/ kitty_done
    \/ finish_update

MainWindowSpec == InitMainWindow /\ [][NextMainWindow]_vars

\* One cycle (Update or Ctrl+I) and everything the main loop runs after it:
\* no periodic or manual refresh, and room for the refreshes that the
\* completion callbacks start.
InitCompletion ==
    /\ scope = [max_cycles |-> 1, full_env |-> FALSE, more_refresh |-> 2]
    /\ Started
    /\ settings.send_notifications
    /\ ~settings.keep_tweaks_beta
    /\ SubIdle

NextCompletion ==
    \/ \E r \in refreshing : refresh_work(r)
    \/ finish_refresh
    \/ on_update_clicked
    \/ \E c \in CycleIds : update_work_pull(c)
    \/ \E c \in CycleIds : update_work_install(c)
    \/ \E c \in CycleIds : update_work_wait(c)
    \/ \E c \in CycleIds : update_work_retry_wait(c)
    \/ \E c \in CycleIds : kitty_work2(c)
    \/ prep_tray
    \/ kitty_done
    \/ finish_update
    \/ run_update_without_pull
    \/ \E c \in CycleIds : shortcut_work(c)
    \/ \E c \in CycleIds : shortcut_wait(c)
    \/ shortcut_done
    \/ idle_refresh_status
    \/ show_message

CompletionSpec == InitCompletion /\ [][NextCompletion]_vars

\* ------------------------------------------ _restore_tweaks_after_install
\* The archived files in the order the loop visits them.
all_backup_files(r) == SelectSeq(PathOrder, LAMBDA p : r.archive[p].exists)

\* open(path, "r", encoding="utf-8", errors="ignore").readlines(): text mode
\* turns every line terminator into "\n"; a missing current file reads as [].
readlines(f) == [line |-> f.line, count |-> f.count]

\* `if new_lines and old_lines == new_lines`: the file is kept without asking.
identical(new_lines, old_lines) == new_lines.count > 0 /\ old_lines = new_lines

\* Number of lines difflib.unified_diff(new_lines, old_lines) yields.
unified_diff(new_lines, old_lines) ==
    IF new_lines = old_lines THEN 0 ELSE 3 + new_lines.count + old_lines.count

\* diff_preview = diff_lines[:200]
diff_preview(n) == IF n > PreviewMax THEN PreviewMax ELSE n

\* Variant: closing the dialog counts as Restore.
restore_chosen_mut(action) == action \in {"YES", "DELETE_EVENT"}

\* `if action == Gtk.ResponseType.YES`
restore_chosen(action) == action = "YES"

\* Variant: a failed copy is logged and not counted.
restore_result_mut(yes, copied) ==
    IF ~yes THEN "kept" ELSE IF copied THEN "restored" ELSE "uncounted"

\* Which counter one file increments: kept_count (identical, or Keep New),
\* restored_count (copied), skipped_count (the copy raised).
restore_result(yes, copied) ==
    IF ~yes THEN "kept" ELSE IF copied THEN "restored" ELSE "skipped"

\* One iteration of the loop for path p: fail is the step that raises (if it is
\* reached), resp the button the operator presses (if the dialog is shown).
restore_one(r, p, fail, resp) ==
    LET old      == r.archive[p]
        new      == r.current[p]
        read_ok  == fail # "read"
        old_lines == readlines(old)
        new_lines == readlines(new)
        auto_kept == ~r.auto_restore /\ read_ok /\ identical(new_lines, old_lines)
        asked    == ~r.auto_restore /\ ~auto_kept
        preview  == IF read_ok THEN diff_preview(unified_diff(new_lines, old_lines)) ELSE 0
        action   == IF r.auto_restore THEN "YES" ELSE IF asked THEN resp ELSE "none"
        yes      == restore_chosen(action)
        bak_made == yes /\ new.exists /\ fail # "backup_copy"
        copied   == yes /\ fail # "copy"
        raised   == IF asked /\ ~read_ok THEN "read"
                    ELSE IF yes /\ new.exists /\ fail = "backup_copy" THEN "backup_copy"
                    ELSE IF yes /\ fail = "copy" THEN "copy"
                    ELSE "none"
        result   == restore_result(yes, copied)
    IN  [r EXCEPT !.pos = r.pos + 1,
                  !.calls[p] = IF asked THEN 1 ELSE 0,
                  !.diff_preview[p] = IF asked THEN preview ELSE 0,
                  !.action[p] = action,
                  !.failed[p] = raised,
                  !.outcome[p] = result,
                  !.tweaks_bak[p] = IF bak_made THEN new ELSE r.tweaks_bak[p],
                  !.current[p] = IF copied THEN old ELSE new,
                  !.restored_count = r.restored_count + (IF result = "restored" THEN 1 ELSE 0),
                  !.kept_count = r.kept_count + (IF result = "kept" THEN 1 ELSE 0),
                  !.skipped_count = r.skipped_count + (IF result = "skipped" THEN 1 ELSE 0)]

\* The call has passed its guards (setting on, archive and target present).
\* Archive and target hold any files; with more than 200 archived files the
\* paths tracked here are a sample of the archive.
RestoreCalled ==
    {[RestoreIdle EXCEPT !.phase = "called", !.archive = a, !.before = f, !.current = f] :
        a \in [Paths -> Files], f \in [Paths -> Files]}

\* Extraction, the file list and the bulk question.
restore_extract ==
    /\ restore.phase = "called"
    /\ \E extracted \in BOOLEAN, bulk \in BOOLEAN :
           restore' =
               IF ~extracted \/ all_backup_files(restore) = <<>>
               THEN [restore EXCEPT !.phase = "returned"]
               ELSE [restore EXCEPT !.phase = "loop", !.auto_restore = bulk]
    /\ UNCHANGED restore_frame

\* One iteration; os.makedirs sits outside every try of the loop.
restore_file ==
    /\ restore.phase = "loop"
    /\ restore.pos <= Len(all_backup_files(restore))
    /\ \E fail \in Failures, resp \in Responses :
           restore' =
               IF fail = "makedirs"
               THEN [restore EXCEPT !.phase = "raised",
                                    !.failed[all_backup_files(restore)[restore.pos]] = "makedirs"]
               ELSE restore_one(restore, all_backup_files(restore)[restore.pos], fail, resp)
    /\ UNCHANGED restore_frame

\* After the loop: the summary line.
restore_summary ==
    /\ restore.phase = "loop"
    /\ restore.pos > Len(all_backup_files(restore))
    /\ restore' = [restore EXCEPT !.phase = "done", !.summary = TRUE]
    /\ UNCHANGED restore_frame

InitRestore ==
    /\ scope = [max_cycles |-> 0, full_env |-> FALSE, more_refresh |-> 0]
    /\ Started
    /\ settings = [installer_mode |-> "auto", send_notifications |-> TRUE,
                   keep_tweaks_beta |-> TRUE]
    /\ restore \in RestoreCalled
    /\ SubIdleBut("restore")

NextRestore == restore_extract \/ restore_file \/ restore_summary

RestoreSpec == InitRestore /\ [][NextRestore]_vars

\* --------------------------------------------------- _spawn_setup_install
\* The candidates, named by the first word of their command line:
\* src/main_window.py falls back to fish, src/app.py to bash.
base_cmds(sp) == <<"./setup", sp.interpreter, "sh">>

\* Variant: every launch error moves on to the next candidate.
tries_fallback_mut(result) == result # "ok"

\* `except OSError as ex: if ex.errno == errno.ENOEXEC: ... continue`
tries_fallback(result) == result = "ENOEXEC"

\* Variant: the loop gives up after the first candidate.
fallbacks_exhausted_mut(sp) == sp.next > 1

\* The for loop has run through base_cmds.
fallbacks_exhausted(sp) == sp.next > Len(base_cmds(sp))

\* Variant: a failed pty.openpty() is tried again for the next candidate.
pty_still_wanted_mut(use_pty, opened) == use_pty

\* `use_pty = False` in the handler of a failed pty.openpty().
pty_still_wanted(use_pty, opened) == use_pty /\ opened

\* _send_to_proc: the descriptor a write to the handle goes to.
send_target(sp) ==
    IF sp.returned # "process" THEN "none"
    ELSE IF sp.master_fd # 0 THEN "pty_master" ELSE "stdin"

\* The feeder thread started for a launched process.  src/main_window.py
\* starts _feed for a non-empty auto_input_seq and _feed_yesforall otherwise;
\* src/app.py (the variant that falls back to bash) starts _feed for a
\* non-empty auto_input_seq and nothing otherwise.
feeder_of(sp) ==
    IF sp.auto_input_seq # <<>> THEN "_feed"
    ELSE IF sp.interpreter = "fish" THEN "_feed_yesforall"
    ELSE "none"

\* Whether the feeder ends with the "yesforall" line: both feeders of
\* src/main_window.py do, _feed of src/app.py ends after its items.
writes_sentinel(sp) == sp.interpreter = "fish"

\* The call: any arguments, PTY wanted or not, either source variant.
SpawnCalled ==
    {[SpawnIdle EXCEPT !.phase = "loop", !.interpreter = i, !.extra_args = a,
                       !.auto_input_seq = q, !.use_pty = t] :
        i \in Interpreters, a \in ExtraArgs, q \in AutoInputs, t \in BOOLEAN}

\* One iteration of `for cmd in base_cmds`: open the PTY if wanted, launch,
\* start the input feeder and return the process, or handle the exception.
spawn_attempt ==
    /\ spawn.phase = "loop"
    /\ ~fallbacks_exhausted(spawn)
    /\ \E pty_opened \in BOOLEAN, result \in LaunchResults :
           LET cmd     == base_cmds(spawn)[spawn.next]
               with_pty == spawn.use_pty /\ pty_opened
               l1      == IF spawn.use_pty /\ ~pty_opened
                          THEN Append(spawn.log, [tag |-> "pty-warn", cmd |-> cmd])
                          ELSE spawn.log
               pair    == IF with_pty
                          THEN {[end |-> "master", of |-> spawn.next],
                                [end |-> "slave", of |-> spawn.next]}
                          ELSE {}
               sp      == [spawn EXCEPT !.use_pty = pty_still_wanted(spawn.use_pty, pty_opened),
                                        !.tried = Append(spawn.tried, cmd),
                                        !.launch = Append(spawn.launch, result),
                                        !.openpty = Append(spawn.openpty,
                                                           IF ~spawn.use_pty THEN "none"
                                                           ELSE IF pty_opened THEN "ok"
                                                           ELSE "failed"),
                                        !.fds = spawn.fds \cup pair]
           IN  spawn' =
                   IF result = "ok"
                   THEN [sp EXCEPT !.phase = "returned", !.returned = "process",
                                   !.cmd = cmd, !.pty = with_pty,
                                   !.master_fd = IF with_pty THEN spawn.next ELSE 0,
                                   !.fds = (spawn.fds \cup pair)
                                               \ {[end |-> "slave", of |-> spawn.next]},
                                   !.feeder = feeder_of(spawn),
                                   !.feed = IF feeder_of(spawn) = "_feed" THEN "items"
                                            ELSE IF feeder_of(spawn) = "_feed_yesforall"
                                            THEN "sentinel"
                                            ELSE "none",
                                   !.log = Append(l1, [tag |-> IF with_pty THEN "spawn/pty"
                                                               ELSE "spawn",
                                                       cmd |-> cmd])]
                   ELSE IF tries_fallback(result)
                   THEN [sp EXCEPT !.next = spawn.next + 1,
                                   !.log = Append(l1, [tag |-> "warn", cmd |-> cmd])]
                   ELSE [sp EXCEPT !.phase = "returned", !.returned = "null",
                                   !.log = Append(l1, [tag |-> "error", cmd |-> cmd])]
    /\ UNCHANGED spawn_frame

\* _feed, one iteration of `for item in auto_input_seq`: os.write of the
\* item, logged; a failed write is logged and breaks the loop.
feed_item ==
    /\ spawn.feed = "items"
    /\ \E written \in BOOLEAN :
           LET item == spawn.auto_input_seq[spawn.item]
               last == ~written \/ spawn.item = Len(spawn.auto_input_seq)
               sp   == [spawn EXCEPT !.item = spawn.item + 1,
                           !.feed = IF ~last THEN "items"
                                    ELSE IF writes_sentinel(spawn) THEN "sentinel"
                                    ELSE "done"]
           IN  spawn' =
                   IF written
                   THEN [sp EXCEPT !.written = Append(spawn.written, item),
                                   !.log = Append(spawn.log, [tag |-> "auto-input",
                                                              cmd |-> item])]
                   ELSE [sp EXCEPT !.write_errors = spawn.write_errors + 1,
                                   !.log = Append(spawn.log, [tag |-> "auto-input-error",
                                                              cmd |-> item])]
    /\ UNCHANGED spawn_frame

\* The trailing "yesforall" line of _feed and _feed_yesforall.
feed_sentinel ==
    /\ spawn.feed = "sentinel"
    /\ \E written \in BOOLEAN :
           spawn' =
               IF written
               THEN [spawn EXCEPT !.feed = "done",
                                  !.written = Append(spawn.written, Sentinel),
                                  !.log = Append(spawn.log, [tag |-> "auto-input",
                                                             cmd |-> Sentinel])]
               ELSE [spawn EXCEPT !.feed = "done",
                                  !.write_errors = spawn.write_errors + 1,
                                  !.log = Append(spawn.log, [tag |-> "auto-input-error",
                                                             cmd |-> Sentinel])]
    /\ UNCHANGED spawn_frame

\* After the loop: "[error] All setup execution fallbacks failed." and None.
spawn_exhausted ==
    /\ spawn.phase = "loop"
    /\ fallbacks_exhausted(spawn)
    /\ spawn' = [spawn EXCEPT !.phase = "returned", !.returned = "null",
                              !.log = Append(spawn.log, [tag |-> "error", cmd |-> "all"])]
    /\ UNCHANGED spawn_frame

InitSpawn ==
    /\ scope = [max_cycles |-> 0, full_env |-> FALSE, more_refresh |-> 0]
    /\ Started
    /\ settings = [installer_mode |-> "auto", send_notifications |-> TRUE,
                   keep_tweaks_beta |-> FALSE]
    /\ spawn \in SpawnCalled
    /\ SubIdleBut("spawn")

NextSpawn == spawn_attempt \/ spawn_exhausted \/ feed_item \/ feed_sentinel

SpawnSpec == InitSpawn /\ [][NextSpawn]_vars

\* ---------------------------------------------------- PTYStdout.readline
\* One call of readline on reader r: the `while True` loop, one
\* self._stream.read(1) per round.  The result holds the value returned (or
\* raised = TRUE) and the reader's state after the call.
RECURSIVE readline(_)
readline(r) ==
    IF r.pos = Len(r.stream)
    THEN IF r.end = "EIO"
         THEN [r EXCEPT !.raised = TRUE, !.phase = "closed"]
         ELSE IF r.buffer # <<>>
         THEN [r EXCEPT !.out = Append(r.out, r.buffer), !.buffer = <<>>]
         ELSE [r EXCEPT !.out = Append(r.out, <<>>), !.phase = "closed"]
    ELSE LET chunk == r.stream[r.pos + 1]
             read  == [r EXCEPT !.pos = r.pos + 1, !.buffer = Append(r.buffer, chunk)]
         IN  IF chunk = NL
             THEN [read EXCEPT !.out = Append(r.out, read.buffer), !.buffer = <<>>]
             ELSE readline(read)

\* `for line in iter(out.readline, "")`: the next call of readline.
read_line ==
    /\ reader.phase = "open"
    /\ reader' = readline(reader)
    /\ UNCHANGED reader_frame

InitReader ==
    /\ scope = [max_cycles |-> 0, full_env |-> FALSE, more_refresh |-> 0]
    /\ Started
    /\ settings = [installer_mode |-> "auto", send_notifications |-> TRUE,
                   keep_tweaks_beta |-> FALSE]
    /\ SubIdleBut("reader")
    /\ reader \in {[ReaderIdle EXCEPT !.phase = "open", !.stream = s, !.end = e] :
                      s \in Streams, e \in StreamEnds}

NextReader == read_line

ReaderSpec == InitReader /\ [][NextReader]_vars

\* ------------------------------- installer section of update_work, handle
\* Outcome of `for line in iter(out.readline, "")`: the stream ends, or a
\* read raises.
ReadResults == {"eof", "raised"}

\* `except Exception as ex: append("[installer error] ...")`: the handle is
\* left as it was.
handle_after_error(handle) == handle

\* p = _spawn_setup_install(...); set_process(p): the handle is p, or None
\* if no candidate could be launched.
installer_spawn ==
    /\ installer.pc = "spawn"
    /\ \E spawned \in SpawnResults :
           installer' =
               IF spawned
               THEN [installer EXCEPT !.pc = "read", !.current_proc = 1,
                                      !.procs[1] = "running"]
               ELSE [installer EXCEPT !.pc = "done", !.current_proc = 0]
    /\ UNCHANGED installer_frame

\* The read loop over the installer's output.
installer_read ==
    /\ installer.pc \in {"read", "read2"}
    /\ \E r \in ReadResults :
           installer' =
               IF r = "eof"
               THEN [installer EXCEPT !.pc = IF installer.pc = "read" THEN "wait"
                                             ELSE "wait2"]
               ELSE [installer EXCEPT !.pc = "done",
                        !.current_proc = handle_after_error(installer.current_proc)]
    /\ UNCHANGED installer_frame

\* rc = p.wait(); set_process(None); the fallback spawn when needed, with
\* set_process(p2).
installer_wait ==
    /\ installer.pc = "wait"
    /\ \E rc \in ExitCodes, spawned \in SpawnResults :
           installer' =
               IF ~needs_retry(rc, installer.extra_args)
               THEN [installer EXCEPT !.pc = "done", !.current_proc = 0,
                                      !.procs[1] = "reaped"]
               ELSE IF spawned
               THEN [installer EXCEPT !.pc = "read2", !.current_proc = 2,
                                      !.procs[1] = "reaped", !.procs[2] = "running"]
               ELSE [installer EXCEPT !.pc = "done", !.current_proc = 0,
                                      !.procs[1] = "reaped"]
    /\ UNCHANGED installer_frame

\* rc2 = p2.wait(); set_process(None).
installer_retry_wait ==
    /\ installer.pc = "wait2"
    /\ installer' = [installer EXCEPT !.pc = "done", !.current_proc = 0,
                                      !.procs[2] = "reaped"]
    /\ UNCHANGED installer_frame

\* _send_to_proc and _on_log_ctrl_c on the UI thread: they act on the process
\* the handle names, and do nothing when it is None.
send_to_proc ==
    /\ installer.pc # "idle"
    /\ Len(installer.sent) < MaxSent
    /\ \E op \in {"input", "SIGINT"} :
           installer' =
               [installer EXCEPT !.sent = Append(installer.sent,
                   [op |-> op, handle |-> installer.current_proc,
                    target |-> installer.current_proc,
                    state |-> IF installer.current_proc = 0 THEN "none"
                              ELSE installer.procs[installer.current_proc]])]
    /\ UNCHANGED installer_frame

InitInstaller ==
    /\ WindowIdle
    /\ SubIdleBut("installer")
    /\ installer \in {[InstallerIdle EXCEPT !.pc = "spawn", !.extra_args = a] :
                         a \in ExtraArgs}

NextInstaller ==
    \/ installer_spawn
    \/ installer_read
    \/ installer_wait
    \/ installer_retry_wait
    \/ send_to_proc

InstallerSpec == InitInstaller /\ [][NextInstaller]_vars

\* ------------------------------------------------- RepoStatus.has_updates
\* A reader of the property: _busy, the banner, the Update handler.
read_has_updates ==
    /\ repo.pc = "status"
    /\ repo' = [repo EXCEPT !.pc = "read", !.has_updates = has_updates(repo.st)]
    /\ UNCHANGED repo_frame

InitStatus ==
    /\ WindowIdle
    /\ SubIdleBut("repo")
    /\ repo \in {[RepoIdle EXCEPT !.pc = "status", !.st = st] : st \in RepoStatuses}

NextStatus == read_has_updates

StatusSpec == InitStatus /\ [][NextStatus]_vars

\* ------------------------------------------- run_git, check_repo_status
\* What subprocess.run does with one git command: the command exits, or the
\* call raises (git missing, TimeoutExpired, another OSError).
Exit(rc, out, err) == [kind |-> "exit", rc |-> rc, out |-> out, err |-> err]
Raise(kind) == [kind |-> kind, rc |-> 0, out |-> <<>>, err |-> <<"!", kind>>]
Failed == {Exit(128, <<>>, <<"f", NL>>), Raise("spawn_failure"), Raise("timeout"),
           Raise("oserror")}

\* Variant: a raised exception is reported as success.
run_git_mut(proc) == [rc |-> IF proc.kind = "exit" THEN proc.rc ELSE 0,
                      out |-> proc.out, err |-> proc.err]

\* run_git: (returncode, stdout, stderr), or (1, "", str(exc)).
run_git(proc) ==
    IF proc.kind = "exit"
    THEN [rc |-> proc.rc, out |-> proc.out, err |-> proc.err]
    ELSE [rc |-> 1, out |-> <<>>, err |-> proc.err]

\* What each command of check_repo_status can meet.
FetchResults == Failed \cup {Exit(0, <<>>, <<>>), Exit(1, <<>>, <<>>), Exit(1, <<>>, <<NL>>)}
BranchResults == Failed \cup {Exit(0, <<"m", NL>>, <<>>), Exit(0, <<>>, <<>>)}
UpstreamResults == Failed \cup {Exit(0, <<"o", "/", "m", NL>>, <<>>), Exit(0, <<NL>>, <<>>)}
CountResults ==
    Failed \cup {Exit(0, out, <<>>) : out \in {<<>>, <<"0", NL>>, <<"2", NL>>, <<"x", NL>>}}
PorcelainResults ==
    Failed \cup {Exit(0, out, <<>>) :
                    out \in {<<>>, <<"M", NL>>, <<"M", NL, " ", NL, "?", NL>>}}

\* One run_git call of check_repo_status, recorded with what it returned.
Called(cmd, proc) ==
    Append(repo.calls, [cmd |-> cmd, proc |-> proc, ret |-> run_git(proc)])

\* `x = out.strip() if rc == 0 else None`
stripped_or_none(ret) == IF ret.rc = 0 THEN Some(strip(ret.out)) ELSE None

\* Truth value of an Optional[str].
truthy(opt) == opt # None /\ opt[1] # <<>>

\* `int(out.strip() or "0")`, 0 on ValueError or when the command failed.
count_of(ret) ==
    IF ret.rc # 0 THEN 0
    ELSE LET text == IF strip(ret.out) = <<>> THEN <<"0">> ELSE strip(ret.out)
         IN  IF int(text).ok THEN int(text).value ELSE 0

\* get_dirty_count: the non-blank lines of `git status --porcelain`.
dirty_count(ret) ==
    IF ret.rc # 0 THEN 0
    ELSE Cardinality({i \in 1..Len(splitlines(ret.out)) : strip(splitlines(ret.out)[i]) # <<>>})

\* Variant: a failed fetch with an empty stderr sets no fetch_error.
fetch_error_of_mut(ret) ==
    IF ret.rc # 0 /\ ret.err # <<>> THEN Some(strip(ret.err)) ELSE None

\* `if rc != 0: fetch_error = (err or "fetch failed").strip()`
fetch_error_of(ret) ==
    IF ret.rc = 0 THEN None
    ELSE IF ret.err # <<>> THEN Some(strip(ret.err))
    ELSE Some(<<"f", "e", "t", "c", "h", " ", "f", "a", "i", "l", "e", "d">>)

\* The two os.path.isdir tests.
validate ==
    /\ repo.pc = "called"
    /\ \E path_is_dir \in BOOLEAN, has_git \in BOOLEAN :
           repo' =
               IF ~path_is_dir
               THEN [repo EXCEPT !.pc = "done", !.path_is_dir = FALSE,
                        !.st = RepoStatus(FALSE, Some("Repository path not found"))]
               ELSE IF ~has_git
               THEN [repo EXCEPT !.pc = "done", !.path_is_dir = TRUE,
                        !.st = RepoStatus(FALSE, Some("Not a git repository"))]
               ELSE [repo EXCEPT !.pc = "fetch", !.path_is_dir = TRUE, !.has_git = TRUE,
                        !.st = RepoStatus(TRUE, None)]
    /\ UNCHANGED repo_frame

\* git fetch --all --prune; fetch_error = (err or "fetch failed").strip()
git_fetch ==
    /\ repo.pc = "fetch"
    /\ \E proc \in FetchResults :
           repo' = [repo EXCEPT !.pc = "branch", !.calls = Called("fetch", proc),
                       !.st.fetch_error = fetch_error_of(run_git(proc))]
    /\ UNCHANGED repo_frame

\* get_branch
get_branch ==
    /\ repo.pc = "branch"
    /\ \E proc \in BranchResults :
           repo' = [repo EXCEPT !.pc = "upstream", !.calls = Called("rev-parse HEAD", proc),
                       !.st.branch = stripped_or_none(run_git(proc))]
    /\ UNCHANGED repo_frame

\* get_upstream: @{u}, else origin/<branch>, else None.
get_upstream ==
    /\ repo.pc = "upstream"
    /\ \E proc \in UpstreamResults :
           LET ret == run_git(proc)
               upstream == IF ret.rc = 0 THEN Some(strip(ret.out))
                           ELSE IF truthy(repo.st.branch)
                           THEN Some(<<"o", "/">> \o repo.st.branch[1])
                           ELSE None
           IN  repo' = [repo EXCEPT !.pc = IF truthy(upstream) THEN "behind" ELSE "dirty",
                           !.calls = Called("rev-parse @{u}", proc),
                           !.st.upstream = upstream]
    /\ UNCHANGED repo_frame

\* rev-list --count HEAD..upstream
count_behind ==
    /\ repo.pc = "behind"
    /\ \E proc \in CountResults :
           repo' = [repo EXCEPT !.pc = "ahead", !.calls = Called("rev-list behind", proc),
                       !.st.behind = count_of(run_git(proc))]
    /\ UNCHANGED repo_frame

\* rev-list --count upstream..HEAD
count_ahead ==
    /\ repo.pc = "ahead"
    /\ \E proc \in CountResults :
           repo' = [repo EXCEPT !.pc = "dirty", !.calls = Called("rev-list ahead", proc),
                       !.st.ahead = count_of(run_git(proc))]
    /\ UNCHANGED repo_frame

\* get_dirty_count and the returned RepoStatus.
get_dirty_count ==
    /\ repo.pc = "dirty"
    /\ \E proc \in PorcelainResults :
           repo' = [repo EXCEPT !.pc = "done", !.calls = Called("status", proc),
                       !.st.dirty = dirty_count(run_git(proc))]
    /\ UNCHANGED repo_frame

InitRepo ==
    /\ WindowIdle
    /\ SubIdleBut("repo")
    /\ repo = [RepoIdle EXCEPT !.pc = "called"]

NextRepo ==
    \/ validate
    \/ git_fetch
    \/ get_branch
    \/ get_upstream
    \/ count_behind
    \/ count_ahead
    \/ get_dirty_count

RepoSpec == InitRepo /\ [][NextRepo]_vars

\* ------------------------------------------------- _insert_ansi_formatted
MaxTokens == 3
ESC == "ESC"

\* Pieces of installer output: SGR sequences and plain text.
Sgr(codes) == <<ESC, "[">> \o codes \o <<"m">>
Tokens ==
    {Sgr(<<"3", "1">>), Sgr(<<"1">>), Sgr(<<"0">>), Sgr(<<>>),
     <<"H", "E", "L", "L", "O">>, <<"x">>}
TokenLists == UNION {[1..n -> Tokens] : n \in 1..MaxTokens}

\* ansi_re = re.compile(r"\x1b\[[0-9;]*m"): the end of the match that starts
\* at k, or 0.
CodeChars == {"0", "1", "2", "3", "4", "5", "6", "7", "8", "9", ";"}
match_end(raw, k) ==
    IF raw[k] = ESC /\ k + 1 <= Len(raw) /\ raw[k + 1] = "["
    THEN LET after == {j \in (k + 2)..Len(raw) : raw[j] \notin CodeChars}
         IN  IF after = {} THEN 0
             ELSE LET j == CHOOSE x \in after : \A y \in after : x <= y
                  IN  IF raw[j] = "m" THEN j ELSE 0
    ELSE 0

\* Start of the first match at or after pos, or 0.
next_match(raw, pos) ==
    LET starts == {k \in pos..Len(raw) : match_end(raw, k) # 0}
    IN  IF starts = {} THEN 0 ELSE CHOOSE x \in starts : \A y \in starts : x <= y

\* str.split(";")
RECURSIVE split(_)
split(s) ==
    IF \E i \in 1..Len(s) : s[i] = ";"
    THEN LET i == CHOOSE k \in 1..Len(s) : s[k] = ";" /\ \A j \in 1..(k - 1) : s[j] # ";"
         IN  <<SubSeq(s, 1, i - 1)>> \o split(SubSeq(s, i + 1, Len(s)))
    ELSE <<s>>

\* `codes = seq[2:-1].split(";") if seq != "\x1b[m" else []`
codes_of(seq) == IF Len(seq) = 3 THEN <<>> ELSE split(SubSeq(seq, 3, Len(seq) - 1))

\* sgr_map and bg_map, the entries the tokens can name.
sgr_map ==
    [c \in {<<"1">>, <<"3", "1">>, <<"3", "2">>} |->
        CASE c = <<"1">> -> "ansi-bold" [] c = <<"3", "1">> -> "ansi-red"
          [] c = <<"3", "2">> -> "ansi-green"]
bg_map == [c \in {<<"4", "1">>} |-> "ansi-bg-41"]

\* Variant: only code 0 resets.
is_reset_mut(codes) == \E i \in 1..Len(codes) : codes[i] = <<"0">>

\* `if not codes or any(c == "0" for c in codes): active_tags = []`
is_reset(codes) == codes = <<>> \/ \E i \in 1..Len(codes) : codes[i] = <<"0">>

\* The while loop over codes (38;5;n and 48;5;n apart, which no token names).
RECURSIVE add_tags(_, _)
add_tags(codes, active) ==
    IF codes = <<>> THEN active
    ELSE LET c == Head(codes)
             has == \E i \in 1..Len(active) : active[i] = sgr_map[c]
         IN  add_tags(Tail(codes),
                      IF c \in DOMAIN sgr_map
                      THEN IF has THEN active ELSE Append(active, sgr_map[c])
                      ELSE IF c \in DOMAIN bg_map THEN Append(active, bg_map[c])
                      ELSE active)

\* buf.insert(segment) with every active tag applied to it.
Span(text, active) == [text |-> text, styles |-> {active[i] : i \in 1..Len(active)}]

\* The body of _insert_ansi_formatted from position pos on: the spans it
\* inserts and the tags active when it returns.
RECURSIVE insert_from(_, _, _, _)
insert_from(raw, pos, active, spans) ==
    LET k == next_match(raw, pos)
    IN  IF k = 0
        THEN [spans |-> IF pos <= Len(raw)
                        THEN Append(spans, Span(SubSeq(raw, pos, Len(raw)), active))
                        ELSE spans,
              active |-> active]
        ELSE LET e     == match_end(raw, k)
                 codes == codes_of(SubSeq(raw, k, e))
             IN  insert_from(raw, e + 1,
                             IF is_reset(codes) THEN <<>> ELSE add_tags(codes, active),
                             IF k > pos
                             THEN Append(spans, Span(SubSeq(raw, pos, k - 1), active))
                             ELSE spans)

\* _insert_ansi_formatted(buf, raw): `pos = 0; active_tags = []`.
insert_ansi_formatted(raw) == insert_from(raw, 1, <<>>, <<>>)

\* The output as one character sequence.
RECURSIVE Flat(_)
Flat(ts) == IF ts = <<>> THEN <<>> ELSE Head(ts) \o Flat(Tail(ts))

\* _append_log(text) for the next part of the output.
append_log ==
    /\ ansi.pc = "feeding"
    /\ ansi.parts # <<>>
    /\ LET r == insert_ansi_formatted(Head(ansi.parts))
       IN  ansi' = [ansi EXCEPT !.parts = Tail(ansi.parts),
                                !.buf = ansi.buf \o r.spans,
                                !.active_tags = r.active,
                                !.pc = IF Len(ansi.parts) = 1 THEN "fed" ELSE "feeding"]
    /\ UNCHANGED ansi_frame

\* The output ts arrives whole (cut = 0), or cut in two after any character.
Feeds(ts) ==
    {[AnsiIdle EXCEPT !.pc = "feeding", !.tokens = ts, !.cut = cut,
         !.parts = IF cut = 0 THEN <<Flat(ts)>>
                   ELSE <<SubSeq(Flat(ts), 1, cut),
                          SubSeq(Flat(ts), cut + 1, Len(Flat(ts)))>>] :
        cut \in 0..(Len(Flat(ts)) - 1)}

InitAnsi ==
    /\ WindowIdle
    /\ SubIdleBut("ansi")
    /\ ansi \in UNION {Feeds(ts) : ts \in TokenLists}

NextAnsi == append_log

AnsiSpec == InitAnsi /\ [][NextAnsi]_vars

\* Output made of style codes of every kind the decoder tells apart: foreground
\* colours, a background colour, a code it does not know, sequences of several
\* codes, a reset, and text.
SgrTokens ==
    {Sgr(<<"3", "1">>), Sgr(<<"3", "2">>), Sgr(<<"4", "1">>), Sgr(<<"9">>),
     Sgr(<<"1", ";", "3", "1">>), Sgr(<<"0", ";", "3", "1">>), Sgr(<<"0">>),
     <<"x">>}
SgrTokenLists == UNION {[1..n -> SgrTokens] : n \in 1..MaxTokens}

\* The output arrives in one call of _append_log.
InitSgr ==
    /\ WindowIdle
    /\ SubIdleBut("ansi")
    /\ ansi \in {[AnsiIdle EXCEPT !.pc = "feeding", !.tokens = ts,
                      !.parts = <<Flat(ts)>>] : ts \in SgrTokenLists}

SgrSpec == InitSgr /\ [][NextAnsi]_vars

\* ------------------------------------------------------------ _xterm_color

\* f"{v:02x}": lower-case hexadecimal, padded with a zero to two digits.
HexDigits ==
    <<"0", "1", "2", "3", "4", "5", "6", "7", "8", "9", "a", "b", "c", "d", "e", "f">>
RECURSIVE hex(_)
hex(v) ==
    IF v < 16 THEN <<HexDigits[v + 1]>>
    ELSE hex(v \div 16) \o <<HexDigits[(v % 16) + 1]>>
format_02x(v) == IF v < 16 THEN <<"0">> \o hex(v) ELSE hex(v)

\* `base`, the sixteen basic colours.
base ==
    <<<<"#", "0", "0", "0", "0", "0", "0">>,
      <<"#", "8", "0", "0", "0", "0", "0">>,
      <<"#", "0", "0", "8", "0", "0", "0">>,
      <<"#", "8", "0", "8", "0", "0", "0">>,
      <<"#", "0", "0", "0", "0", "8", "0">>,
      <<"#", "8", "0", "0", "0", "8", "0">>,
      <<"#", "0", "0", "8", "0", "8", "0">>,
      <<"#", "c", "0", "c", "0", "c", "0">>,
      <<"#", "8", "0", "8", "0", "8", "0">>,
      <<"#", "f", "f", "0", "0", "0", "0">>,
      <<"#", "0", "0", "f", "f", "0", "0">>,
      <<"#", "f", "f", "f", "f", "0", "0">>,
      <<"#", "0", "0", "0", "0", "f", "f">>,
      <<"#", "f", "f", "0", "0", "f", "f">>,
      <<"#", "0", "0", "f", "f", "f", "f">>,
      <<"#", "f", "f", "f", "f", "f", "f">>>>

\* `conv = [0, 95, 135, 175, 215, 255]`
conv == <<0, 95, 135, 175, 215, 255>>

\* Variant: the ramp starts one index early.
grey_level_mut(n) == 8 + (n - 231) * 10

\* `level = 8 + (n - 232) * 10`
grey_level(n) == 8 + (n - 232) * 10

\* _xterm_color(n): the colour as the text "#rrggbb".
xterm_color(n) ==
    IF n < 16 THEN base[n + 1]
    ELSE IF 16 <= n /\ n <= 231
    THEN LET m == n - 16
             r == (m \div 36) % 6
             g == (m \div 6) % 6
             b == m % 6
         IN  <<"#">> \o format_02x(conv[r + 1]) \o format_02x(conv[g + 1])
                 \o format_02x(conv[b + 1])
    ELSE LET level == grey_level(n)
         IN  <<"#">> \o format_02x(level) \o format_02x(level) \o format_02x(level)

\* One 38;5;n or 48;5;n code: the tag ansi-xterm-<c>-<n> is created with its
\* colour unless the table holds it already.
xterm_tag ==
    /\ tags.pc = "decoding"
    /\ tags.todo # <<>>
    /\ LET c        == Head(tags.todo)
           tag_name == <<"ansi-xterm", c, tags.color_index>>
           known    == \E t \in tags.table : t.name = tag_name
           tag      == [name |-> tag_name,
                        property |-> IF c = "38" THEN "foreground" ELSE "background",
                        value |-> xterm_color(tags.color_index)]
       IN  tags' = [tags EXCEPT !.todo = Tail(tags.todo),
                                !.table = IF known THEN tags.table
                                          ELSE tags.table \cup {tag},
                                !.pc = IF Len(tags.todo) = 1 THEN "decoded"
                                       ELSE "decoding"]
    /\ UNCHANGED tags_frame

\* One or two 256-colour codes naming the index n.
InitXterm ==
    /\ WindowIdle
    /\ SubIdleBut("tags")
    /\ \E n \in 0..MaxIndex, k \in 1..2 : \E todo \in [1..k -> {"38", "48"}] :
           tags = [TagsIdle EXCEPT !.pc = "decoding", !.color_index = n, !.todo = todo]

NextXterm == xterm_tag

XtermSpec == InitXterm /\ [][NextXterm]_vars

\* ------------------------------------------- threads of one Update click
\* A blocking call (a git command, a refresh, a read of installer output) made
\* by the code that click.thread is running.
Blocking(cmds) == [i \in 1..Len(cmds) |-> [cmd |-> cmds[i], thread |-> click.thread]]

\* _auto_mode_decide_full up to its prompt: the fetch, then the diff against
\* the upstream or, without one, the porcelain status.
decide_full_commands(upstream) ==
    <<"fetch", IF upstream THEN "diff HEAD..upstream" ELSE "status --porcelain">>

\* The detection queries of _check_and_handle_unmerged_conflicts.
detection_commands == <<"diff --diff-filter=U", "rev-parse MERGE_HEAD", "rev-parse CHERRY_PICK_HEAD">>

\* on_update_clicked up to the conflict check, run by the GTK main loop:
\* without a status it starts a refresh worker and returns; in auto mode it
\* calls _auto_mode_decide_full.
click_plan ==
    /\ click.pc = "clicked"
    /\ IF ~click.present
       THEN click' = [click EXCEPT !.pc = "refresh_work", !.thread = "worker"]
       ELSE \E upstream \in BOOLEAN :
            click' = [click EXCEPT
                         !.pc = "planned",
                         !.blocking = IF click.mode = "auto"
                                      THEN @ \o Blocking(decide_full_commands(upstream))
                                      ELSE @]
    /\ UNCHANGED click_frame

\* refresh_work, the target of the thread refresh_status starts.
click_refresh_work ==
    /\ click.pc = "refresh_work"
    /\ click' = [click EXCEPT !.pc = "posted",
                              !.blocking = @ \o Blocking(<<"check_repo_status">>)]
    /\ UNCHANGED click_frame

\* on_update_clicked: the call of _check_and_handle_unmerged_conflicts.
click_check_conflicts ==
    /\ click.pc = "planned"
    /\ \E cs \in ConflictStates, resp_ok \in BOOLEAN,
          abort_rc \in [1..Len(AbortOps) -> ExitCodes], still \in BOOLEAN :
        LET r == check_and_handle_unmerged_conflicts(cs, resp_ok, abort_rc, still)
        IN  click' = [click EXCEPT
                         !.pc = IF r.ok THEN "confirmed" ELSE "returned",
                         !.cs = cs, !.resp_ok = resp_ok, !.abort_rc = abort_rc,
                         !.still = r.requeried /\ still, !.ok = r.ok,
                         !.blocking = @ \o Blocking(detection_commands)
                                        \o Blocking(r.cmds)
                                        \o (IF r.requeried
                                            THEN Blocking(<<"diff --diff-filter=U">>)
                                            ELSE <<>>)]
    /\ UNCHANGED click_frame

\* on_update_clicked: threading.Thread(target=update_work).start().
click_start_update_work ==
    /\ click.pc = "confirmed"
    /\ click' = [click EXCEPT !.pc = "update_work", !.thread = "worker"]
    /\ UNCHANGED click_frame

\* update_work: the precompute fetch and diff, stash, pull and pop.
click_update_work ==
    /\ click.pc = "update_work"
    /\ \E dirty, pull_ok \in BOOLEAN :
        click' = [click EXCEPT
                     !.pc = "installer",
                     !.blocking = @ \o Blocking(<<"fetch", "diff HEAD..upstream">>)
                                    \o (IF dirty THEN Blocking(<<"stash push">>) ELSE <<>>)
                                    \o Blocking(<<"pull">>)
                                    \o (IF pull_ok /\ dirty THEN Blocking(<<"stash pop">>)
                                        ELSE <<>>)]
    /\ UNCHANGED click_frame

\* update_work: the loop over the installer's output, then idle_add.
click_read_installer ==
    /\ click.pc = "installer"
    /\ click' = [click EXCEPT !.pc = "posted",
                              !.blocking = @ \o Blocking(<<"readline">>)]
    /\ UNCHANGED click_frame

\* The Update button was clicked: the handler starts on the control thread.
InitClick ==
    /\ WindowIdle
    /\ SubIdleBut("click")
    /\ \E present \in BOOLEAN, mode \in InstallerModes :
           click = [ClickIdle EXCEPT !.pc = "clicked", !.present = present,
                                     !.mode = mode]

NextClick ==
    \/ click_plan
    \/ click_refresh_work
    \/ click_check_conflicts
    \/ click_start_update_work
    \/ click_update_work
    \/ click_read_installer

ClickSpec == InitClick /\ [][NextClick]_vars

\* ------------------------------------- UI changes of one update (src/app.py)
\* A change of UI state made by the thread that runs the calling code.
Change(what, thread) == [what |-> what, thread |-> thread]

\* A method of the window called directly: it acts on the caller's thread.
direct(u, what) == [u EXCEPT !.changes = Append(@, Change(what, u.thread))]

\* _append_log / _clear_log_view: `if threading.current_thread() is
\* threading.main_thread(): do_x() else: GLib.idle_add(do_x)`.
log_dispatch(u, what) ==
    IF u.thread = "control" THEN direct(u, what)
    ELSE [u EXCEPT !.idle = Append(@, what)]

\* GLib.idle_add(callback).
idle_add(u, callback) == [u EXCEPT !.idle = Append(@, callback)]

\* _run_installer_common up to the start of its thread, on the caller's
\* thread: reveal the log panel, append the header, _busy(True).
run_installer_common(u) ==
    direct(log_dispatch(direct(u, "reveal"), "log append"), "busy")

\* on_update_clicked, run by the main loop: reveal, header, _busy(True), and
\* the start of the update_work thread.
ui_on_update_clicked ==
    /\ ui.pc = "clicked"
    /\ ui' = [direct(log_dispatch(direct(ui, "reveal"), "log append"), "busy")
                 EXCEPT !.pc = "update_work", !.thread = "worker"]
    /\ UNCHANGED ui_frame

\* update_work: stash, pull, pop with their log lines, then either the
\* installer through _run_installer_common or idle_add(_finish_update).
ui_update_work ==
    /\ ui.pc = "update_work"
    /\ \E dirty, success, setup_ok \in BOOLEAN :
        LET u1 == IF dirty THEN log_dispatch(ui, "log append") ELSE ui
            u2 == IF success /\ dirty THEN log_dispatch(u1, "log append") ELSE u1
        IN  ui' = IF success /\ setup_ok
                  THEN [run_installer_common(u2) EXCEPT !.pc = "installer_work"]
                  ELSE [idle_add(u2, "finish_update") EXCEPT !.pc = "posted"]
    /\ UNCHANGED ui_frame

\* work of _run_installer_common: the installer's lines (one or two here) are
\* appended to the log, then idle_add(done).
ui_installer_work ==
    /\ ui.pc = "installer_work"
    /\ \E lines \in 1..2 :
        LET u1 == log_dispatch(ui, "log append")
            u2 == IF lines = 2 THEN log_dispatch(u1, "log append") ELSE u1
        IN  ui' = [idle_add(u2, "done") EXCEPT !.pc = "posted"]
    /\ UNCHANGED ui_frame

\* The Clear button of the log panel.
ui_clear_clicked ==
    /\ ui.pc # "clicked"
    /\ ~ui.cleared
    /\ ui' = [log_dispatch([ui EXCEPT !.thread = "control"], "log clear")
                 EXCEPT !.thread = ui.thread, !.cleared = TRUE]
    /\ UNCHANGED ui_frame

\* The main loop runs the next idle callback: do_append / do_clear change the
\* buffer, _finish_update and done run _busy(False) and _add_log.
ui_idle ==
    /\ ui.idle # <<>>
    /\ LET cb == Head(ui.idle)
           on_control(what) == Change(what, "control")
       IN  ui' = [ui EXCEPT
                     !.idle = Tail(@),
                     !.changes =
                         @ \o (IF cb \in {"finish_update", "done"}
                               THEN <<on_control("busy"), on_control("history append")>>
                               ELSE <<on_control(cb)>>)]
    /\ UNCHANGED ui_frame

\* The Update button of src/app.py was clicked.
InitUi ==
    /\ WindowIdle
    /\ SubIdleBut("ui")
    /\ ui = [UiIdle EXCEPT !.pc = "clicked"]

NextUi ==
    \/ ui_on_update_clicked
    \/ ui_update_work
    \/ ui_installer_work
    \/ ui_clear_clicked
    \/ ui_idle

UiSpec == InitUi /\ [][NextUi]_vars

\* ------------------------------------------- stash push / pop of update_work
\* What `git stash push --include-untracked` can do: create an entry (only
\* when the working tree has changes), find nothing to save, or fail.
PushResults(tree_dirty) ==
    IF tree_dirty THEN {"created", "failed"} ELSE {"nothing", "failed"}

\* Entries that existed before the cycle.
OldStacks == {<<>>, <<"old-1">>, <<"old-2", "old-1">>}

\* `if self._status and self._status.dirty > 0:` stash push, `stashed = True`
\* whatever the command did (its result is not looked at).
stash_push ==
    /\ stash.pc = "update_work"
    /\ LET st == [NoStatus EXCEPT !.present = TRUE, !.dirty = stash.status_dirty]
       IN  IF should_stash(st)
           THEN \E result \in PushResults(stash.tree_dirty) :
                stash' = [stash EXCEPT
                             !.pc = "pull",
                             !.stashed = TRUE,
                             !.push = result,
                             !.stack = IF result = "created" THEN <<"cycle">> \o @ ELSE @]
           ELSE stash' = [stash EXCEPT !.pc = "pull"]
    /\ UNCHANGED stash_frame

\* git pull --rebase --autostash: `success = pull.returncode == 0`.
stash_pull ==
    /\ stash.pc = "pull"
    /\ \E rc \in ExitCodes : stash' = [stash EXCEPT !.pc = "pop", !.success = rc = 0]
    /\ UNCHANGED stash_frame

\* `if success and stashed:` git stash pop, which applies the newest entry and
\* drops it unless applying it conflicts; without entries it fails.
stash_pop ==
    /\ stash.pc = "pop"
    /\ IF should_pop(stash.success, stash.stashed)
       THEN \E applied \in BOOLEAN :
            stash' = [stash EXCEPT
                         !.pc = "done",
                         !.pop_run = TRUE,
                         !.popped = IF stash.stack # <<>> /\ applied
                                    THEN Head(stash.stack) ELSE "none",
                         !.stack = IF stash.stack # <<>> /\ applied THEN Tail(@) ELSE @]
       ELSE stash' = [stash EXCEPT !.pc = "done"]
    /\ UNCHANGED stash_frame

\* update_work starts with a status snapshot whose dirty count may be older
\* than the working tree, in a repository that may hold stash entries.
InitStash ==
    /\ WindowIdle
    /\ SubIdleBut("stash")
    /\ \E old \in OldStacks, d \in DirtyValues, tree_dirty \in BOOLEAN :
           stash = [StashIdle EXCEPT !.pc = "update_work", !.before = old,
                                     !.stack = old, !.status_dirty = d,
                                     !.tree_dirty = tree_dirty]

NextStash == stash_push \/ stash_pull \/ stash_pop

StashSpec == InitStash /\ [][NextStash]_vars

\* ------------------------------------------------------------- properties
UpdateCycles == {c \in CycleIds : cycles[c].kind = "update"}

\* History entries and notifications of cycle c.
LogsOf(c) == SelectSeq(update_logs, LAMBDA e : e.cyc = c)
NotesOf(c) == SelectSeq(notifications, LAMBDA n : n.cyc = c)

HasOp(c, op) == \E i \in 1..Len(cycles[c].ops) : cycles[c].ops[i] = op

\* The worker of cycle c was launched and ran its pull step.
WorkerRan(c) == cycles[c].pull # "none"

\* The last installer attempt of cycle c.
LastRun(c) == cycles[c].inst[Len(cycles[c].inst)]

\* C1: at no time are two installer processes started by the orchestrator
\* alive together, under every interleaving of Update clicks, Ctrl+I presses,
\* refresh completions and the install-files -> install retry.
C1_OneInstallerAlive == Cardinality(LiveInstallers) <= 1

\* C2: a stale refresh result is discarded: once the result of a refresh has
\* been applied, the result of a refresh started earlier never replaces it
\* (the number of the refresh behind the current status never decreases).
C2_StaleResultDiscarded == [][status'.gen >= status.gen]_vars

\* C3: the success reported at the end of an update cycle reflects the
\* installer's exit code: after a retry the title is 'Update complete' exactly
\* when the retry exited 0, and a cycle whose last installer attempt exited
\* non-zero is reported as 'Update failed'.
C3_ReportReflectsInstallerExit ==
    \A c \in UpdateCycles :
        \A i \in 1..Len(update_logs) :
            (/\ update_logs[i].cyc = c
             /\ cycles[c].pull = "ok"
             /\ cycles[c].inst # <<>>
             /\ LastRun(c).state = "exited")
            => (update_logs[i].title = "Update complete" <=> LastRun(c).rc = 0)

C5_NoInstallerAfterFailedPull ==
    \A c \in UpdateCycles : cycles[c].pull = "fail" => cycles[c].inst = <<>>

\* C6: git stash push runs before the pull and only when the status reports
\* dirty > 0; git stash pop runs only if the cycle pushed a stash and its pull
\* exited 0; after a failed pull no stash pop is issued.
C6_StashDiscipline ==
    \A c \in UpdateCycles :
        LET ops == cycles[c].ops
        IN  /\ \A i \in 1..Len(ops) :
                   ops[i] = "stash push" =>
                       /\ cycles[c].dirty_seen > 0
                       /\ \A j \in 1..Len(ops) : ops[j] = "pull" => i < j
            /\ \A i \in 1..Len(ops) :
                   ops[i] = "stash pop" =>
                       /\ cycles[c].pull = "ok"
                       /\ \E j \in 1..(i - 1) : ops[j] = "stash push"
                       /\ \E j \in 1..(i - 1) : ops[j] = "pull"
            /\ cycles[c].pull = "fail" => ~HasOp(c, "stash pop")

\* C6 witness: a cycle that stashed, whose pull failed, and that left the
\* stash entry in place.
C6_Witness ==
    \E c \in UpdateCycles :
        /\ cycles[c].pull = "fail"
        /\ HasOp(c, "stash push")
        /\ ~HasOp(c, "stash pop")
        /\ cycles[c].pc = "done"

\* C7: every update cycle whose worker was launched reaches the final state
\* with exactly one history entry and the UI no longer busy with the update,
\* whatever path it took: a cycle whose worker has ended and whose callbacks
\* have run has exactly one history entry.
C7_EveryCycleFinalised ==
    \A c \in UpdateCycles :
        (WorkerRan(c) /\ cycles[c].pc \in {"done", "dead"})
            => Len(LogsOf(c)) = 1

\* The case of C8: clean tree, pull succeeded, install-files exited 0, and
\* the cycle has ended.
CleanSuccessfulCycle(c) ==
    /\ cycles[c].kind = "update"
    /\ cycles[c].pc = "done"
    /\ cycles[c].dirty_seen = 0
    /\ cycles[c].pull = "ok"
    /\ cycles[c].inst = <<Run("install-files", "embedded", "exited", 0)>>

C9_NoMutationWithoutConfirmation ==
    \A c \in UpdateCycles :
        cycles[c].conflict = "cancelled" =>
            /\ cycles[c].ops = <<>>
            /\ cycles[c].inst = <<>>
            /\ cycles[c].pc = "done"

\* Over every conflict state, abort exit code and result of the second query:
\* a confirmed abort sequence is followed by the second unmerged-path query,
\* and a remaining unmerged path makes the resolution fail.
RequeriedAfterAbort ==
    \A cs \in ConflictStates, abort_rc \in [1..Len(AbortOps) -> ExitCodes],
       still \in BOOLEAN :
        conflict_detected(cs) =>
            LET r == check_and_handle_unmerged_conflicts(cs, TRUE, abort_rc, still)
            IN  r.requeried /\ (still => ~r.ok)

\* C10: after a confirmed abort sequence the unmerged-path query is run
\* again; if an unmerged path remains the resolution fails and the cycle ends
\* without any stash, pull or installer step (and without a worker).
C10_StillUnmergedEndsCycle ==
    /\ RequeriedAfterAbort
    /\ \A c \in UpdateCycles :
           cycles[c].still =>
               /\ cycles[c].pc = "done"
               /\ ~WorkerRan(c)
               /\ ~HasOp(c, "stash push")
               /\ ~HasOp(c, "pull")
               /\ ~HasOp(c, "stash pop")
               /\ cycles[c].inst = <<>>
               /\ LogsOf(c) = <<>>

\* C10 witness: every abort exited 0, yet an unmerged path remained.
C10_Witness ==
    \E c \in UpdateCycles :
        /\ cycles[c].still
        /\ cycles[c].conflict = "aborted"
        /\ HasOp(c, "abort")

\* C11: an update cycle is entered only if the most recent RepoStatus has
\* updates (ok and behind > 0); without them no pull is executed, and the only
\* install is the forced files-only reinstall, which runs no git command.
C11_CycleOnlyWithUpdates ==
    \A c \in CycleIds :
        /\ cycles[c].kind = "update" => cycles[c].had_updates
        /\ HasOp(c, "pull") => cycles[c].had_updates
        /\ cycles[c].kind = "shortcut" =>
               /\ cycles[c].ops = <<>>
               /\ \A i \in 1..Len(cycles[c].inst) :
                      cycles[c].inst[i].args = "install-files"

\* C12: in auto install mode the full-vs-minimal decision of a cycle is its
\* own: the cycle plans the full install if and only if, in that same cycle,
\* a sensitive path changed and the operator answered yes; without a
\* sensitive change the operator is not prompted and the plan is
\* install-files; a decision taken in one cycle never determines the plan of
\* another cycle.
C12_DecisionIsPerCycle ==
    \A c \in UpdateCycles :
        settings.installer_mode = "auto" =>
            /\ cycles[c].decided = "full" => cycles[c].prompted
            /\ cycles[c].plan # "none" =>
                   (cycles[c].plan = "install" <=> cycles[c].decided = "full")

\* C13: tweak restore only ever uses an archive created by the backup step
\* of the same cycle: a cycle with keep-tweaks enabled and an existing target
\* directory creates its own archive before its installer runs, and restore
\* does nothing in a cycle that took no backup.
C13_RestoreUsesOwnBackup ==
    \A c \in CycleIds :
        /\ cycles[c].restored_from \in {0, c}
        /\ cycles[c].backup # "taken" => cycles[c].restored_from = 0
        /\ cycles[c].inst # <<>> => cycles[c].backup # "reused"

\* Archived paths the loop has dealt with.
Processed == {p \in Paths : restore.outcome[p] # "pending"}

\* C14: during restore, an archived path whose current file exists with
\* content identical to the archived content (the empty file included) gets no
\* decision callback, is not modified, and is counted as kept.
C14_IdenticalKeptSilently ==
    \A p \in Processed :
        (restore.before[p].exists /\ restore.before[p] = restore.archive[p]) =>
            /\ restore.calls[p] = 0
            /\ restore.current[p] = restore.before[p]
            /\ restore.tweaks_bak[p] = Absent
            /\ restore.outcome[p] = "kept"

\* C15: in per-file mode, with no I/O error on the path, an archived path whose
\* current file is absent or differs from the archived content gets exactly
\* one decision callback; when the current file is present and differs, the
\* diff preview it is shown is non-empty and at most PreviewMax lines long.
C15_DifferentAskedOnce ==
    \A p \in Processed :
        (~restore.auto_restore /\ restore.failed[p] = "none"
             /\ restore.before[p] # restore.archive[p]) =>
            /\ restore.calls[p] = 1
            /\ restore.before[p].exists =>
                   /\ restore.diff_preview[p] > 0
                   /\ restore.diff_preview[p] <= PreviewMax

\* Number of processed paths with the given outcome.
Count(result) == Cardinality({p \in Processed : restore.outcome[p] = result})

\* C16: on a Restore decision for a path whose current file exists, the file
\* is overwritten only once the saved-aside copy of its previous content
\* exists, and restored is incremented once for each restored path.
C16_SavedAsideBeforeOverwrite ==
    /\ \A p \in Processed :
           (restore.before[p].exists /\ restore.outcome[p] = "restored") =>
               restore.tweaks_bak[p] = restore.before[p]
    /\ restore.restored_count = Count("restored")

C18_FailureIsolated ==
    /\ restore.phase # "raised"
    /\ \A p \in Paths : restore.failed[p] # "none" => restore.outcome[p] = "skipped"
    /\ restore.skipped_count = Count("skipped")
    /\ restore.phase = "done" => restore.summary

\* The log holds an entry with this tag for this candidate.
Logged(tag, cmd) == \E i \in 1..Len(spawn.log) : spawn.log[i] = [tag |-> tag, cmd |-> cmd]

Attempts == 1..Len(spawn.tried)

\* C19: spawn tries ./setup, then the shell interpreter, then sh, and stops at
\* the first candidate that launches; an exec-format error is logged and the
\* next candidate is tried; any other launch error is logged and ends the
\* spawn with a null result, the remaining candidates untried.
C19_FallbackOrder ==
    /\ spawn.tried = SubSeq(<<"./setup", spawn.interpreter, "sh">>, 1, Len(spawn.tried))
    /\ \A i \in Attempts :
           /\ spawn.launch[i] = "ok" =>
                  /\ i = Len(spawn.tried)
                  /\ spawn.returned = "process" /\ spawn.cmd = spawn.tried[i]
           /\ spawn.launch[i] = "ENOEXEC" =>
                  /\ Logged("warn", spawn.tried[i])
                  /\ (spawn.returned # "pending" /\ i < 3) => i < Len(spawn.tried)
           /\ spawn.launch[i] \in {"OSError", "Exception"} =>
                  /\ i = Len(spawn.tried)
                  /\ spawn.returned = "null" /\ Logged("error", spawn.tried[i])
    /\ spawn.returned = "process" => spawn.launch[Len(spawn.tried)] = "ok"

\* Two exec-format errors, then sh launches and is returned.
C19_Witness ==
    /\ spawn.launch = <<"ENOEXEC", "ENOEXEC", "ok">>
    /\ spawn.returned = "process" /\ spawn.cmd = "sh"

\* C20 as stated: spawn returns null only when every candidate has been
\* attempted and has failed to start; one candidate's failure never stops the
\* iteration through the remaining candidates.
C20_AsStated ==
    spawn.returned = "null" =>
        /\ Len(spawn.tried) = 3
        /\ \A i \in Attempts : spawn.launch[i] # "ok"

\* C20: spawn returns null only when no candidate was launched and every
\* attempted candidate failed with a logged message: either all three failed
\* with an exec-format error, or the last one attempted failed with another
\* error, which ends the iteration.
C20_NullOnlyAfterFailure ==
    spawn.returned = "null" =>
        /\ spawn.tried # <<>>
        /\ \A i \in Attempts :
               /\ spawn.launch[i] # "ok"
               /\ Logged("warn", spawn.tried[i]) \/ Logged("error", spawn.tried[i])
        /\ \/ Len(spawn.tried) = 3 /\ \A i \in Attempts : spawn.launch[i] = "ENOEXEC"
           \/ spawn.launch[Len(spawn.tried)] \in {"OSError", "Exception"}

\* ./setup fails with an exec-format error, the interpreter with another
\* error: null is returned and sh is never tried.
C20_Witness ==
    /\ spawn.returned = "null"
    /\ spawn.launch = <<"ENOEXEC", "OSError">>

\* C21: when pty.openpty() fails during a spawn asked to use a PTY, a warning
\* is logged, the same candidate is launched with pipes, no later candidate of
\* the call opens a PTY again, and a handle returned then is pipe-backed: no
\* PTY master, writes go to its stdin pipe.
C21_PtyFailureDegradesToPipes ==
    \A i \in Attempts :
        spawn.openpty[i] = "failed" =>
            /\ Logged("pty-warn", spawn.tried[i])
            /\ \A j \in Attempts : j > i => spawn.openpty[j] = "none"
            /\ [end |-> "master", of |-> i] \notin spawn.fds
            /\ spawn.returned = "process" =>
                   /\ ~spawn.pty /\ spawn.master_fd = 0
                   /\ send_target(spawn) = "stdin"
                   /\ Logged("spawn", spawn.cmd) /\ ~Logged("spawn/pty", spawn.cmd)

\* The PTY could not be opened for ./setup, which then failed with an
\* exec-format error; the interpreter was launched with pipes.
C21_Witness ==
    /\ spawn.openpty = <<"failed", "none">>
    /\ spawn.launch = <<"ENOEXEC", "ok">>
    /\ spawn.returned = "process" /\ send_target(spawn) = "stdin"

\* C22: PTY descriptors belong to the returned handle alone: when spawn has
\* returned, the parent holds no open slave descriptor and no master
\* descriptor other than the returned handle's, also when a candidate failed
\* to launch after its PTY had been opened.
C22_DescriptorsOwnedByHandle ==
    spawn.phase = "returned" =>
        spawn.fds = IF spawn.master_fd # 0
                    THEN {[end |-> "master", of |-> spawn.master_fd]}
                    ELSE {}

\* The feeder of a launched process has nothing left to write.
FeederFinished == spawn.returned = "process" /\ spawn.feed \in {"none", "done"}

ErrorsLogged ==
    Cardinality({i \in 1..Len(spawn.log) : spawn.log[i].tag = "auto-input-error"})

\* C23: after every successful spawn the feeder writes the scripted inputs in
\* list order and then the sentinel line, once and after the last item (the
\* sentinel alone for an empty list); a failed write is logged, not raised.
C23_FeederWritesItemsThenSentinel ==
    /\ (FeederFinished /\ spawn.write_errors = 0) =>
           spawn.written = Append(spawn.auto_input_seq, Sentinel)
    /\ ErrorsLogged = spawn.write_errors

\* The values returned so far, joined.
RECURSIVE Joined(_)
Joined(values) == IF values = <<>> THEN <<>> ELSE Head(values) \o Joined(Tail(values))

\* C24: the line reader delivers the stream in order without loss or
\* duplication: each call returns the characters up to and including the next
\* newline, a final unterminated fragment is the last non-empty value, the
\* empty string comes only at end of stream, and the values returned before
\* the first empty string add up to the whole stream.
C24_ReaderDeliversStream ==
    /\ Joined(reader.out) \o reader.buffer = SubSeq(reader.stream, 1, reader.pos)
    /\ \A i \in 1..Len(reader.out) :
           LET v == reader.out[i]
           IN  /\ v = <<>> => i = Len(reader.out) /\ reader.pos = Len(reader.stream)
               /\ \A k \in 1..Len(v) : v[k] = NL => k = Len(v)
               /\ (v # <<>> /\ v[Len(v)] # NL) => reader.pos = Len(reader.stream)
    /\ reader.phase = "closed" => Joined(reader.out) = reader.stream

\* C25: the current process handle is non-null only while the installer it
\* names is running: it is None once the installer section is over, whatever
\* the path (normal exit, retry, spawn returning null, an error raised while
\* reading output), and an input or interrupt issued while it is None reaches
\* no process.
C25_HandleOnlyWhileRunning ==
    /\ installer.current_proc # 0 => installer.procs[installer.current_proc] = "running"
    /\ installer.pc = "done" => installer.current_proc = 0
    /\ \A i \in 1..Len(installer.sent) :
           installer.sent[i].handle = 0 => installer.sent[i].target = 0

\* C26: for every RepoStatus, has_updates equals (ok and behind > 0):
\* behind = 0 gives false whatever ahead is, ok = false gives false whatever
\* behind is.
C26_HasUpdatesIffOkAndBehind ==
    repo.pc = "read" =>
        /\ repo.has_updates <=> (repo.st.ok /\ repo.st.behind > 0)
        /\ repo.st.behind = 0 => ~repo.has_updates
        /\ ~repo.st.ok => ~repo.has_updates

\* The property was read on a status that is not ok but has commits behind.
C26_Witness ==
    /\ repo.pc = "read"
    /\ ~repo.st.ok /\ repo.st.behind > 0 /\ ~repo.has_updates

\* C27: run_git never raises to its caller: a spawn failure, a timeout or any
\* OS error comes back as exit code 1 with empty stdout and the message as
\* stderr; a command that exits comes back as it ended; each command is
\* attempted once.
C27_RunGitNeverRaises ==
    /\ \A i \in 1..Len(repo.calls) :
           LET call == repo.calls[i]
           IN  /\ call.proc.kind # "exit" =>
                      call.ret = [rc |-> 1, out |-> <<>>, err |-> call.proc.err]
               /\ call.proc.kind = "exit" =>
                      call.ret = [rc |-> call.proc.rc, out |-> call.proc.out,
                                  err |-> call.proc.err]
    /\ \A i, j \in 1..Len(repo.calls) : repo.calls[i].cmd = repo.calls[j].cmd => i = j

\* The fetch timed out, git could not be started for the branch query, and
\* check_repo_status still returned.
C27_Witness ==
    /\ repo.pc = "done"
    /\ Len(repo.calls) >= 2
    /\ repo.calls[1].proc.kind = "timeout" /\ repo.calls[1].ret.rc = 1
    /\ repo.calls[2].proc.kind = "spawn_failure" /\ repo.calls[2].ret.rc = 1

\* The run_git calls check_repo_status made for cmd.
CallsOf(cmd) == {i \in 1..Len(repo.calls) : repo.calls[i].cmd = cmd}

\* The count a query stands for: 0 unless it ran, succeeded and printed a
\* decimal number.
Counted(cmd) ==
    IF \E i \in CallsOf(cmd) :
           repo.calls[i].ret.rc = 0 /\ int(strip(repo.calls[i].ret.out)).ok
    THEN LET i == CHOOSE k \in CallsOf(cmd) : TRUE
         IN  int(strip(repo.calls[i].ret.out)).value
    ELSE 0

\* C28: check_repo_status returns ok = false exactly when the path is not a
\* directory ("Repository path not found") or has no .git directory ("Not a
\* git repository"), and then runs no git command; otherwise ok = true,
\* fetch_error is set if and only if the fetch failed, and behind, ahead and
\* dirty are 0 for each count whose query failed, printed unparsable output or
\* was not run for want of an upstream.
C28_StatusOfCheck ==
    repo.pc = "done" =>
        /\ ~repo.st.ok <=> (~repo.path_is_dir \/ ~repo.has_git)
        /\ ~repo.st.ok =>
               /\ repo.calls = <<>>
               /\ repo.st.error = IF ~repo.path_is_dir
                                  THEN Some("Repository path not found")
                                  ELSE Some("Not a git repository")
        /\ repo.st.ok =>
               /\ repo.st.error = None
               /\ \A i \in CallsOf("fetch") :
                      repo.st.fetch_error # None <=> repo.calls[i].ret.rc # 0
               /\ repo.st.behind = Counted("rev-list behind")
               /\ repo.st.ahead = Counted("rev-list ahead")
               /\ \A i \in CallsOf("status") :
                      repo.calls[i].ret.rc # 0 => repo.st.dirty = 0
               /\ ~truthy(repo.st.upstream) =>
                      /\ CallsOf("rev-list behind") = {} /\ CallsOf("rev-list ahead") = {}
                      /\ repo.st.behind = 0 /\ repo.st.ahead = 0

\* The fetch failed without a message, no upstream could be resolved, and the
\* status is ok with a fetch_error and zero counts.
C28_Witness ==
    /\ repo.pc = "done" /\ repo.st.ok
    /\ repo.calls[1].ret.rc # 0 /\ repo.calls[1].ret.err = <<>>
    /\ repo.st.fetch_error # None
    /\ repo.st.upstream = None
    /\ repo.st.behind = 0 /\ repo.st.dirty = 2

\* The log view as styled characters, span boundaries apart.
RECURSIVE Styled(_)
Styled(spans) ==
    IF spans = <<>> THEN <<>>
    ELSE [i \in 1..Len(Head(spans).text) |->
             [ch |-> Head(spans).text[i], styles |-> Head(spans).styles]]
         \o Styled(Tail(spans))

\* The whole output was fed in one call.
FedWhole == ansi.pc = "fed" /\ ansi.cut = 0

IsResetToken(t) == t \in {Sgr(<<"0">>), Sgr(<<>>)}
IsText(t) == t[1] # ESC

\* Number of text characters in the first k tokens.
RECURSIVE TextBefore(_, _)
TextBefore(ts, k) ==
    IF k = 0 THEN 0
    ELSE TextBefore(ts, k - 1) + (IF IsText(ts[k]) THEN Len(ts[k]) ELSE 0)

RedHelloReset == <<Sgr(<<"3", "1">>), <<"H", "E", "L", "L", "O">>, Sgr(<<"0">>)>>

\* C29: feeding ESC[31m HELLO ESC[0m yields exactly one span, HELLO styled
\* {red}, and leaves no active style; in general a reset (ESC[0m or ESC[m)
\* clears every active style, so text that follows a reset has no style.
C29_ResetClearsStyles ==
    FedWhole =>
        /\ ansi.tokens = RedHelloReset =>
               /\ ansi.buf = <<[text |-> <<"H", "E", "L", "L", "O">>,
                                styles |-> {"ansi-red"}]>>
               /\ ansi.active_tags = <<>>
        /\ \A k \in 1..(Len(ansi.tokens) - 1) :
               (IsResetToken(ansi.tokens[k]) /\ IsText(ansi.tokens[k + 1])) =>
                   \A i \in (TextBefore(ansi.tokens, k) + 1)..TextBefore(ansi.tokens, k + 1) :
                       Styled(ansi.buf)[i].styles = {}
        /\ IsResetToken(ansi.tokens[Len(ansi.tokens)]) => ansi.active_tags = <<>>

\* ESC[31m HELLO ESC[0m was fed in one call.
C29_Witness ==
    /\ FedWhole
    /\ ansi.tokens = RedHelloReset
    /\ Len(ansi.buf) = 1 /\ ansi.buf[1].styles = {"ansi-red"}

\* C30: the decoder keeps its state across feed calls: for every input and
\* every cut (inside an escape sequence, or between a style code and the text
\* it styles), feeding the two parts in two calls yields the same styled
\* text as feeding the input whole.
C30_SplitFeedSameSpans ==
    ansi.pc = "fed" =>
        Styled(ansi.buf) = Styled(insert_ansi_formatted(Flat(ansi.tokens)).spans)

\* Tags of the two colour categories.
FgColours == {"ansi-red", "ansi-green"}
BgColours == {"ansi-bg-41"}
ActiveSet == {ansi.active_tags[i] : i \in 1..Len(ansi.active_tags)}

\* C31: at every point of the stream the active style set holds at most one
\* foreground colour and at most one background colour, the one set most
\* recently since the last reset: a colour code replaces the colour of its
\* category.
C31_OneColourPerCategory ==
    /\ \A styles \in {ActiveSet} \cup {ansi.buf[i].styles : i \in 1..Len(ansi.buf)} :
           /\ Cardinality(styles \cap FgColours) <= 1
           /\ Cardinality(styles \cap BgColours) <= 1
    /\ FedWhole =>
           LET last == ansi.tokens[Len(ansi.tokens)]
           IN  /\ last = Sgr(<<"3", "1">>) => ActiveSet \cap FgColours = {"ansi-red"}
               /\ last = Sgr(<<"3", "2">>) => ActiveSet \cap FgColours = {"ansi-green"}

\* The codes of one sequence taken one at a time, left to right: code 0 (or a
\* sequence without codes) clears the styles, any other code acts as it does
\* alone.
RECURSIVE LeftToRight(_, _)
LeftToRight(codes, active) ==
    IF codes = <<>> THEN active
    ELSE LeftToRight(Tail(codes),
                     IF Head(codes) = <<"0">> THEN <<>>
                     ELSE add_tags(<<Head(codes)>>, active))

\* The tags active before the last piece of the output.
ActiveBeforeLast ==
    insert_ansi_formatted(Flat(SubSeq(ansi.tokens, 1, Len(ansi.tokens) - 1))).active

\* C32: every code of a multi-code sequence takes effect in left-to-right
\* order: ESC[1;31m activates bold and red, ESC[0;31m leaves exactly red
\* active, and a code the decoder does not know leaves the active styles as
\* they were.
C32_CodesLeftToRight ==
    FedWhole =>
        LET last  == ansi.tokens[Len(ansi.tokens)]
            codes == codes_of(last)
            want  == LeftToRight(codes, ActiveBeforeLast)
        IN  /\ ~IsText(last) => ActiveSet = {want[i] : i \in 1..Len(want)}
            /\ ansi.tokens = <<Sgr(<<"1", ";", "3", "1">>)>> =>
                   ActiveSet = {"ansi-bold", "ansi-red"}
            /\ ansi.tokens = <<Sgr(<<"0", ";", "3", "1">>)>> => ActiveSet = {"ansi-red"}
            /\ last = Sgr(<<"9">>) => ansi.active_tags = ActiveBeforeLast

\* The value of channel k (1 red, 2 green, 3 blue) of a colour "#rrggbb".
HexValue(ch) == (CHOOSE i \in 1..16 : HexDigits[i] = ch) - 1
Channel(colour, k) == 16 * HexValue(colour[2 * k]) + HexValue(colour[2 * k + 1])
Rgb(colour) == <<Channel(colour, 1), Channel(colour, 2), Channel(colour, 3)>>

\* C33: the 256-colour mapping gives every index 0..255 a colour whose three
\* channels are within 0..255: 0-15 from the basic palette, 16-231 from the
\* 6x6x6 cube with levels 0, 95, 135, 175, 215, 255, 232-255 from the grey
\* ramp 8 + 10*(n-232); 16 is (0,0,0), 231 (255,255,255), 232 (8,8,8), 255
\* (238,238,238); the same index always gives the same colour.
C33_XtermColourMapping ==
    \A t \in tags.table :
        LET n == tags.color_index
            v == t.value
        IN  /\ Len(v) = 7 /\ v[1] = "#"
            /\ \A i \in 2..7 : \E d \in 1..16 : HexDigits[d] = v[i]
            /\ \A k \in 1..3 : Channel(v, k) \in 0..255
            /\ n < 16 => v = base[n + 1]
            /\ (16 <= n /\ n <= 231) =>
                   /\ \A k \in 1..3 : Channel(v, k) \in {0, 95, 135, 175, 215, 255}
                   /\ \E r, g, b \in 0..5 :
                          /\ n = 16 + 36 * r + 6 * g + b
                          /\ Rgb(v) = <<conv[r + 1], conv[g + 1], conv[b + 1]>>
            /\ (232 <= n /\ n <= 255) =>
                   Rgb(v) = <<8 + 10 * (n - 232), 8 + 10 * (n - 232), 8 + 10 * (n - 232)>>
            /\ n = 16 => Rgb(v) = <<0, 0, 0>>
            /\ n = 231 => Rgb(v) = <<255, 255, 255>>
            /\ n = 232 => Rgb(v) = <<8, 8, 8>>
            /\ n = 255 => Rgb(v) = <<238, 238, 238>>
            /\ \A u \in tags.table : u.value = v

\* Index 255 was used for a foreground and for a background: two tags hold
\* the near-white grey.
C33_Witness ==
    /\ tags.pc = "decoded"
    /\ tags.color_index = 255
    /\ Cardinality(tags.table) = 2
    /\ \A t \in tags.table : Rgb(t.value) = <<238, 238, 238>>

\* C34: no blocking command runs on the control thread: every git invocation
\* made for refresh, install planning (the fetch and diff of the auto-mode
\* decision included), conflict detection and abort, stash and pull, and
\* every read of installer output, is made by a worker thread.
C34_NoBlockingOnControlThread ==
    \A i \in 1..Len(click.blocking) : click.blocking[i].thread # "control"

\* The --abort commands among the calls of the click, in the order issued.
IsAbort(call) == call.cmd \in {"merge --abort", "rebase --abort", "cherry-pick --abort"}
IssuedAborts ==
    LET a == SelectSeq(click.blocking, IsAbort)
    IN  [i \in 1..Len(a) |-> a[i].cmd]

\* The operator confirmed the abort of a detected conflict.
Confirmed ==
    /\ click.pc \notin {"clicked", "planned", "refresh_work"}
    /\ click.present
    /\ conflict_detected(click.cs)
    /\ click.resp_ok

\* C36: after the operator confirms, exactly one matching --abort is issued
\* for each operation detected as in progress, in the order merge, rebase,
\* cherry-pick, none for an operation not detected, all of them even when an
\* earlier one fails; success is reported only if every issued abort exited
\* 0 and the second unmerged-path query is empty.
C36_OneAbortPerDetectedOperation ==
    Confirmed =>
        /\ IssuedAborts =
               (IF click.cs.merge THEN <<"merge --abort">> ELSE <<>>)
               \o (IF click.cs.rebase THEN <<"rebase --abort">> ELSE <<>>)
               \o (IF click.cs.cherry THEN <<"cherry-pick --abort">> ELSE <<>>)
        /\ click.ok =>
               /\ click.cs.merge => click.abort_rc[1] = 0
               /\ click.cs.rebase => click.abort_rc[2] = 0
               /\ click.cs.cherry => click.abort_rc[3] = 0
               /\ ~click.still

\* A merge and a cherry-pick were in progress, the merge abort failed, and
\* the cherry-pick abort was issued all the same.
C36_Witness ==
    /\ Confirmed
    /\ click.cs.merge /\ ~click.cs.rebase /\ click.cs.cherry
    /\ click.abort_rc[1] = 1
    /\ IssuedAborts = <<"merge --abort", "cherry-pick --abort">>
    /\ ~click.ok

\* C35: worker threads never change UI state directly: a log append or a
\* buffer clear called off the control thread is posted and applied on the
\* control thread, and busy/idle changes, the reveal of the console and
\* history appends are made on the control thread only.
C35_UiChangesOnControlThread ==
    \A i \in 1..Len(ui.changes) : ui.changes[i].thread = "control"

\* The worker of update cycle c or its installer is running, or its
\* completion callback is posted and has not run.
Unfinished(c) ==
    cycles[c].pc \in {"started", "pulled", "installing", "retrying", "kitty", "finishing"}

\* C37: while the worker or an installer of an update cycle is running the UI
\* stays busy: Update and Refresh stay disabled from the start of the cycle
\* until its own completion callback runs, whatever refreshes complete in
\* between.
C37_BusyUntilCycleCompletes ==
    \A c \in UpdateCycles : Unfinished(c) => (busy /\ ~update_sensitive)

\* The entries of the stack that existed before the cycle, in order.
OldEntries == SelectSeq(stash.stack, LAMBDA e : e # "cycle")

\* C38: the stash pop of an update cycle removes only an entry that the same
\* cycle's stash push created: when the push created none (it failed, or the
\* tree was clean because the dirty count came from an older snapshot), no
\* pop is executed and the entries that existed before the cycle are left
\* untouched.
C38_PopOnlyOwnStash ==
    /\ stash.popped \in {"none", "cycle"}
    /\ stash.pop_run => stash.push = "created"
    /\ OldEntries = stash.before

\* C39: when restore reaches its summary every archived file has been counted
\* in exactly one of restored, kept and skipped: the three counts add up to
\* the number of files in the archive, in per-file mode and in bulk mode.
C39_CountsAddUp ==
    /\ restore.phase \in {"loop", "done"} =>
           restore.restored_count + restore.kept_count + restore.skipped_count
               = restore.pos - 1
    /\ restore.summary =>
           /\ restore.restored_count + restore.kept_count + restore.skipped_count
                  = Len(all_backup_files(restore))
           /\ \A i \in 1..Len(all_backup_files(restore)) :
                  restore.outcome[all_backup_files(restore)[i]]
                      \in {"restored", "kept", "skipped"}

\* A bulk restore of two files reached its summary with one file restored
\* and one skipped after its copy failed.
C39_Witness ==
    /\ restore.summary
    /\ restore.auto_restore
    /\ Len(all_backup_files(restore)) = 2
    /\ restore.restored_count = 1
    /\ restore.skipped_count = 1

\* C40: each completion callback a worker posts runs exactly once: after one
\* installer run (files-only shortcut, or full install in the external
\* terminal) the tweak restore and the status refresh it schedules are
\* performed once for that run and are not re-run by the control loop.
C40_CompletionRunsOnce ==
    \A c \in CycleIds : cycles[c].completed <= 1

====
